---------------------------- MODULE Spec2Model ----------------------------
(***************************************************************************)
(* A model of holdem-lab's core library (src/holdem-core/src/holdem_lab):  *)
(* cards, the hand evaluator, the Monte-Carlo equity engine and the draw   *)
(* analyzer.  Pure functions are operators computed the way the Python     *)
(* code computes them; each subsystem has a specification of its own whose *)
(* initial states draw the inputs from bounded sets and whose actions      *)
(* apply the functions.                                                    *)
(***************************************************************************)
EXTENDS Integers, Sequences, FiniteSets, TLC

VARIABLES
    ev_hands,     \* evaluator: the argument, a list of hands (lists of cards)
    ev_op,        \* evaluator: the function that was called ("none" before)
    ev_err,       \* evaluator: "" or the exception the call raised
    ev_rank,      \* evaluator: the HandRank returned
    ev_winners,   \* evaluator: the list find_winners returned
    eq_pc,        \* equity: "idle", "rejected", "request", "loop", "done", "failed"
    eq_req,       \* equity: the EquityRequest (the constructor's arguments)
    eq_err,       \* equity: "" or the exception raised last
    eq_run,       \* equity: calls of calculate_equity started on the request
    eq_rng,       \* calculate_equity: the state of rng
    eq_deck,      \* calculate_equity: remaining_deck
    eq_sim,       \* calculate_equity: iterations of the loop completed
    eq_acc,       \* calculate_equity: acc, the EquityAccumulator
    eq_winners,   \* calculate_equity: winners, of the last trial
    eq_conv,      \* calculate_equity: convergence_points
    eq_res,       \* equity: the EquityResult returned last
    eq_prev,      \* equity: the EquityResult returned by the call before
    dr_hole,      \* draws: the argument hole_cards
    dr_board,     \* draws: the argument board
    dr_dead,      \* draws: the argument dead_cards
    dr_op,        \* draws: "none" before the call, "analyze_draws" after it
    dr_err,       \* draws: "" or the exception the call raised
    dr_res,       \* draws: the DrawAnalysis returned
    cn_cards,     \* canonize: the argument cards of canonize_hole_cards
    cn_hand,      \* canonize: the argument canonical
    cn_dead,      \* canonize: the argument dead_cards
    cn_op,        \* canonize: "none" or the function called last
    cn_err,       \* canonize: "" or the exception the call raised
    cn_canon,     \* canonize: the CanonicalHand returned
    cn_combos,    \* canonize: the list of combos returned
    cn_hands,     \* canonize: the list get_all_canonical_hands returned last
    cn_prev,      \* canonize: the list it returned the call before
    dk_cards,     \* Deck: self._cards
    dk_removed,   \* Deck: self._removed
    dk_rng,       \* Deck: the state of self._rng
    dk_op,        \* Deck: "init" or the method called last
    dk_err,       \* Deck: "" or the exception the call raised
    dk_out,       \* Deck: the cards the call returned
    dk_calls,     \* Deck: method calls made
    dk_gone,      \* history: the cards remove has taken out of the deck
    dk_dealt,     \* history: the cards deal and deal_one have handed out
    dk_n,         \* history: the count passed to the last deal or peek
    dk_req,       \* history: the cards passed to the last remove
    dk_round,     \* history: the cards dealt since the last reset
    gs,           \* GameState: the game
    gs_op,        \* GameState: "init" or the method called last
    gs_err,       \* GameState: "" or the exception the call raised
    gs_calls,     \* GameState: method calls made
    gs_failed,    \* history: some call on the game has raised
    rp_log,       \* HandReplayer: self.log
    rp,           \* HandReplayer: the replayer
    rp_op,        \* HandReplayer: "init" or the method called last
    rp_arg,       \* HandReplayer: the step passed to the last goto_step
    rp_out,       \* HandReplayer: None or the state the call returned
    rp_states,    \* HandReplayer: the list get_all_states returned last
    rp_calls,     \* HandReplayer: method calls made
    rp_prev       \* HandReplayer: the replayer before the last call

ev_vars == <<ev_hands, ev_op, ev_err, ev_rank, ev_winners>>

eq_vars == <<eq_pc, eq_req, eq_err, eq_run, eq_rng, eq_deck, eq_sim, eq_acc,
             eq_winners, eq_conv, eq_res, eq_prev>>

dr_vars == <<dr_hole, dr_board, dr_dead, dr_op, dr_err, dr_res>>

cn_vars == <<cn_cards, cn_hand, cn_dead, cn_op, cn_err, cn_canon, cn_combos,
             cn_hands, cn_prev>>

dk_vars == <<dk_cards, dk_removed, dk_rng, dk_op, dk_err, dk_out, dk_calls,
             dk_gone, dk_dealt, dk_n, dk_req, dk_round>>

gs_vars == <<gs, gs_op, gs_err, gs_calls, gs_failed>>

rp_vars == <<rp_log, rp, rp_op, rp_arg, rp_out, rp_states, rp_calls, rp_prev>>

vars == <<ev_vars, eq_vars, dr_vars, cn_vars, dk_vars, gs_vars, rp_vars>>

(***************************************************************************)
(* Bounds of the model.                                                    *)
(***************************************************************************)
FiveDeckSize == 14   \* 5-card hands are the 5-subsets of this many cards
HandDeckSize == 10   \* 6- and 7-card hands are subsets of this many cards
BadDeckSize  == 9    \* 4- and 8-card hands (rejected) come from this many
MaxHands     == 3    \* longest list of hands given to find_winners
LimbBits     == 15   \* floats: bits per limb of the fixed-point representation
NumLimbs     == 7    \* floats: limbs; the top limb is the integer part
MaxPlayers   == 11   \* equity: the most players in a request
MaxSims      == 2    \* equity: the largest num_simulations
MaxSeed      == 1    \* equity: integer seeds are 1..MaxSeed
MaxEntropy   == 2    \* equity: states an unseeded generator can start in
MaxInterval  == 2    \* equity: the largest convergence_interval
MaxRuns      == 2    \* equity: calls of calculate_equity on one request
DrawPoolSize == 9    \* draws: boards are drawn from this many cards
MaxDead      == 1    \* draws: the most dead cards
MaxCanonDead == 2    \* canonize: the most dead cards of get_combos_excluding
MaxDeckCalls == 3    \* Deck: method calls made on one deck
MaxGameCalls == 3    \* GameState: method calls made on one game
MaxReplayCalls == 3  \* HandReplayer: method calls made on one replayer

(***************************************************************************)
(* Generic helpers on sequences.                                           *)
(***************************************************************************)
Range(s) == {s[i] : i \in DOMAIN s}

RemoveAt(s, i) == SubSeq(s, 1, i - 1) \o SubSeq(s, i + 1, Len(s))

\* The element of a one-element set.  TheOne({F(x) : x \in {e}}) is F(e)
\* with e evaluated once, however often F uses it.
TheOne(S) == CHOOSE x \in S : TRUE

\* sorted(s, reverse=True) for a list of integers
RECURSIVE SortedDesc(_)
SortedDesc(s) ==
    IF s = <<>> THEN <<>>
    ELSE LET i == CHOOSE i \in 1..Len(s) : \A j \in 1..Len(s) : s[j] <= s[i]
         IN  <<s[i]>> \o SortedDesc(RemoveAt(s, i))

\* the elements of a finite set of integers, descending
RECURSIVE SetDesc(_)
SetDesc(S) ==
    IF S = {} THEN <<>>
    ELSE LET m == CHOOSE m \in S : \A x \in S : x <= m
         IN  <<m>> \o SetDesc(S \ {m})

\* Python's tuple comparison a < b on tuples of integers
RECURSIVE TupleLess(_, _)
TupleLess(a, b) ==
    IF a = <<>> THEN b /= <<>>
    ELSE IF b = <<>> THEN FALSE
    ELSE IF a[1] /= b[1] THEN a[1] < b[1]
    ELSE TupleLess(Tail(a), Tail(b))

(***************************************************************************)
(* cards.py: Rank, Suit, Card, FULL_DECK.                                  *)
(***************************************************************************)
ACE == 14
Ranks == 2..14
CLUBS == 0
DIAMONDS == 1
HEARTS == 2
SPADES == 3
Suits == {CLUBS, DIAMONDS, HEARTS, SPADES}

Card(r, s) == [rank |-> r, suit |-> s]

to_index(c) == (c.rank - 2) * 4 + c.suit

from_index(i) == Card((i \div 4) + 2, i % 4)

FULL_DECK == [i \in 1..52 |-> from_index(i - 1)]

AllCards == Range(FULL_DECK)

\* a set of cards as a list, in FULL_DECK order
RECURSIVE CardList(_)
CardList(S) ==
    IF S = {} THEN <<>>
    ELSE LET c == CHOOSE c \in S : \A d \in S : to_index(c) <= to_index(d)
         IN  <<c>> \o CardList(S \ {c})

(***************************************************************************)
(* evaluator.py                                                            *)
(***************************************************************************)
HIGH_CARD == 0
ONE_PAIR == 1
TWO_PAIR == 2
THREE_OF_A_KIND == 3
STRAIGHT == 4
FLUSH == 5
FULL_HOUSE == 6
FOUR_OF_A_KIND == 7
STRAIGHT_FLUSH == 8
ROYAL_FLUSH == 9

HandRank(t, p, k) == [hand_type |-> t, primary_ranks |-> p, kickers |-> k]

\* the value of ev_rank when no HandRank was returned
NoRank == HandRank(HIGH_CARD, <<>>, <<>>)

\* HandRank is a dataclass with order=True: the fields compare as a tuple
HandRankLess(a, b) ==
    IF a.hand_type /= b.hand_type THEN a.hand_type < b.hand_type
    ELSE IF a.primary_ranks /= b.primary_ranks
         THEN TupleLess(a.primary_ranks, b.primary_ranks)
    ELSE TupleLess(a.kickers, b.kickers)

_get_ranks(cards) == SortedDesc([i \in DOMAIN cards |-> cards[i].rank])

_is_flush(cards) == Cardinality({cards[i].suit : i \in DOMAIN cards}) = 1

\* _get_straight_high without its wheel branch
_get_straight_high_no_wheel(ranks) ==
    LET unique == SetDesc(Range(ranks))
    IN  IF Len(unique) /= 5 THEN <<>>
        ELSE IF unique[1] - unique[5] = 4 THEN <<unique[1]>>
        ELSE <<>>

\* <<h>> for a straight with high card h, <<>> for None
_get_straight_high(ranks) ==
    LET unique == SetDesc(Range(ranks))
    IN  IF Len(unique) /= 5 THEN <<>>
        ELSE IF unique[1] - unique[5] = 4 THEN <<unique[1]>>
        ELSE IF unique = <<14, 5, 4, 3, 2>> THEN <<5>>
        ELSE <<>>

\* Counter(ranks).items() sorted by (count, rank), reverse=True
RECURSIVE ItemsDesc(_, _)
ItemsDesc(S, ranks) ==
    IF S = {} THEN <<>>
    ELSE LET cnt == [r \in S |-> Cardinality({i \in DOMAIN ranks : ranks[i] = r})]
             m == CHOOSE m \in S : \A x \in S :
                      \/ cnt[x] < cnt[m]
                      \/ cnt[x] = cnt[m] /\ x <= m
         IN  <<<<m, cnt[m]>>>> \o ItemsDesc(S \ {m}, ranks)

evaluate_five_ok(cards) ==
    LET ranks == _get_ranks(cards)
        is_flush == _is_flush(cards)
        straight_high == _get_straight_high(ranks)
        is_straight == straight_high /= <<>>
        ranks_by_count == ItemsDesc(Range(ranks), ranks)
        counts == [i \in DOMAIN ranks_by_count |-> ranks_by_count[i][2]]
        r(i) == ranks_by_count[i][1]
    IN  IF is_flush /\ is_straight THEN
            IF straight_high[1] = 14
            THEN HandRank(ROYAL_FLUSH, <<14>>, <<>>)
            ELSE HandRank(STRAIGHT_FLUSH, straight_high, <<>>)
        ELSE IF counts = <<4, 1>> THEN
            HandRank(FOUR_OF_A_KIND, <<r(1)>>, <<r(2)>>)
        ELSE IF counts = <<3, 2>> THEN
            HandRank(FULL_HOUSE, <<r(1), r(2)>>, <<>>)
        ELSE IF is_flush THEN
            HandRank(FLUSH, ranks, <<>>)
        ELSE IF is_straight THEN
            HandRank(STRAIGHT, straight_high, <<>>)
        ELSE IF counts = <<3, 1, 1>> THEN
            HandRank(THREE_OF_A_KIND, <<r(1)>>, SortedDesc(<<r(2), r(3)>>))
        ELSE IF counts = <<2, 2, 1>> THEN
            HandRank(TWO_PAIR, SortedDesc(<<r(1), r(2)>>), <<r(3)>>)
        ELSE IF counts = <<2, 1, 1, 1>> THEN
            HandRank(ONE_PAIR, <<r(1)>>, SortedDesc(<<r(2), r(3), r(4)>>))
        ELSE HandRank(HIGH_CARD, <<ranks[1]>>, Tail(ranks))

\* evaluate_five without the royal-flush branch: the Ace-high straight flush
\* is returned as a straight flush
evaluate_five_no_royal(cards) ==
    IF Len(cards) /= 5 THEN [err |-> "ValueError", rank |-> NoRank]
    ELSE [err |-> "",
          rank |-> IF evaluate_five_ok(cards).hand_type = ROYAL_FLUSH
                   THEN HandRank(STRAIGHT_FLUSH, <<14>>, <<>>)
                   ELSE evaluate_five_ok(cards)]

\* [err, rank]: evaluate_five raises ValueError unless given exactly 5 cards
evaluate_five(cards) ==
    IF Len(cards) /= 5 THEN [err |-> "ValueError", rank |-> NoRank]
    ELSE [err |-> "", rank |-> evaluate_five_ok(cards)]

\* itertools.combinations(range(lo, n + 1), k): index tuples, lexicographic
RECURSIVE Combinations(_, _, _)
Combinations(lo, n, k) ==
    IF k = 0 THEN <<<<>>>>
    ELSE IF n - lo + 1 < k THEN <<>>
    ELSE LET with == Combinations(lo + 1, n, k - 1)
         IN  [i \in DOMAIN with |-> <<lo>> \o with[i]]
             \o Combinations(lo + 1, n, k)

FiveOf == [n \in 5..8 |-> Combinations(1, n, 5)]

\* the loop of evaluate_hand with its comparison turned round (rank < best_rank)
RECURSIVE BestFrom_less(_, _, _, _)
BestFrom_less(cards, combos, i, best_rank) ==
    IF i > Len(combos) THEN best_rank
    ELSE LET combo == [j \in 1..5 |-> cards[combos[i][j]]]
             rank == evaluate_five_ok(combo)
         IN  IF best_rank = <<>> \/ HandRankLess(rank, best_rank[1])
             THEN BestFrom_less(cards, combos, i + 1, <<rank>>)
             ELSE BestFrom_less(cards, combos, i + 1, best_rank)

\* the loop of evaluate_hand over the combos from position i on
RECURSIVE BestFrom(_, _, _, _)
BestFrom(cards, combos, i, best_rank) ==
    IF i > Len(combos) THEN best_rank
    ELSE LET combo == [j \in 1..5 |-> cards[combos[i][j]]]
             rank == evaluate_five_ok(combo)
         IN  IF best_rank = <<>> \/ HandRankLess(best_rank[1], rank)
             THEN BestFrom(cards, combos, i + 1, <<rank>>)
             ELSE BestFrom(cards, combos, i + 1, best_rank)

evaluate_hand(cards) ==
    IF Len(cards) < 5 THEN [err |-> "ValueError", rank |-> NoRank]
    ELSE IF Len(cards) > 7 THEN [err |-> "ValueError", rank |-> NoRank]
    ELSE IF Len(cards) = 5 THEN evaluate_five(cards)
    ELSE [err |-> "",
          rank |-> BestFrom(cards, FiveOf[Len(cards)], 1, <<>>)[1]]

\* max(ranks): the first greatest element
RECURSIVE MaxRank(_, _)
MaxRank(ranks, best) ==
    IF ranks = <<>> THEN best
    ELSE MaxRank(Tail(ranks),
                 IF HandRankLess(best, Head(ranks)) THEN Head(ranks) ELSE best)

\* [ranks.index(best_rank)]: only the first of the tied hands
IndicesOf_first(ranks, best_rank, i) ==
    <<(CHOOSE k \in DOMAIN ranks :
          ranks[k] = best_rank /\ \A j \in 1..(k - 1) : ranks[j] /= best_rank) - 1>>

\* [i for i, rank in enumerate(ranks) if rank == best_rank], 0-based
RECURSIVE IndicesOf(_, _, _)
IndicesOf(ranks, best_rank, i) ==
    IF i > Len(ranks) THEN <<>>
    ELSE (IF ranks[i] = best_rank THEN <<i - 1>> ELSE <<>>)
         \o IndicesOf(ranks, best_rank, i + 1)

find_winners(hands) ==
    IF hands = <<>> THEN [err |-> "ValueError", winners |-> <<>>]
    ELSE LET evals == [i \in DOMAIN hands |-> evaluate_hand(hands[i])]
         IN  IF \E i \in DOMAIN evals : evals[i].err /= ""
             THEN [err |-> "ValueError", winners |-> <<>>]
             ELSE LET ranks == [i \in DOMAIN evals |-> evals[i].rank]
                      best_rank == MaxRank(Tail(ranks), Head(ranks))
                  IN  [err |-> "", winners |-> IndicesOf(ranks, best_rank, 1)]

(***************************************************************************)
(* Python floats.  equity.py computes pot shares in binary64: 1.0 / k,     *)
(* sums of shares, and quotients by a count.  A float x >= 0 is modelled   *)
(* exactly, as the integer x * 2^FracBits written in NumLimbs limbs of     *)
(* LimbBits bits, least significant first; every operation rounds to       *)
(* MantissaBits significant bits, to nearest, ties to even, as IEEE 754    *)
(* does.  The limbs hold every float in [2^-(FracBits-MantissaBits),       *)
(* 2^LimbBits), which covers the values the bounded runs produce.          *)
(***************************************************************************)
MantissaBits == 53
LimbBase == 2^LimbBits
FracBits == (NumLimbs - 1) * LimbBits
Limbs == 1..NumLimbs

\* float(n) for an integer 0 <= n < LimbBase
FloatOfInt(n) == [i \in Limbs |-> IF i = NumLimbs THEN n ELSE 0]

FloatZero == FloatOfInt(0)

Pow2Big(k) ==
    [i \in Limbs |-> IF i = (k \div LimbBits) + 1 THEN 2^(k % LimbBits) ELSE 0]

BigLess(a, b) ==
    \E i \in Limbs : a[i] < b[i] /\ \A j \in (i + 1)..NumLimbs : a[j] = b[j]

RECURSIVE AddLimbs(_, _, _, _)
AddLimbs(a, b, i, carry) ==
    IF i > NumLimbs THEN <<>>
    ELSE LET t == a[i] + b[i] + carry
         IN  <<t % LimbBase>> \o AddLimbs(a, b, i + 1, t \div LimbBase)

\* the exact sum
BigAdd(a, b) == AddLimbs(a, b, 1, 0)

\* the exact quotient by a small positive integer, and the remainder
RECURSIVE DivLimbs(_, _, _, _)
DivLimbs(a, n, i, rem) ==
    IF i = 0 THEN [quot |-> <<>>, rem |-> rem]
    ELSE LET cur == rem * LimbBase + a[i]
             rest == DivLimbs(a, n, i - 1, cur % n)
         IN  [quot |-> Append(rest.quot, cur \div n), rem |-> rest.rem]

BitLen(a) ==
    IF \A i \in Limbs : a[i] = 0 THEN 0
    ELSE LET top == CHOOSE i \in Limbs :
                        a[i] /= 0 /\ \A j \in (i + 1)..NumLimbs : a[j] = 0
             len == CHOOSE k \in 1..LimbBits : 2^(k - 1) <= a[top] /\ a[top] < 2^k
         IN  (top - 1) * LimbBits + len

\* a (plus a fraction of a unit when sticky) rounded to MantissaBits
\* significant bits, to nearest, ties to even
RoundToMantissa(a, sticky) ==
    LET d == BitLen(a) - MantissaBits
    IN  IF d <= 0 THEN a
        ELSE LET q == d \div LimbBits
                 r == d % LimbBits
                 low == [i \in Limbs |-> IF i <= q THEN a[i]
                                         ELSE IF i = q + 1 THEN a[i] % (2^r)
                                         ELSE 0]
                 trunc == [i \in Limbs |-> a[i] - low[i]]
                 half == Pow2Big(d - 1)
                 lsb == (a[q + 1] \div (2^r)) % 2
                 up == \/ BigLess(half, low)
                       \/ low = half /\ (sticky \/ lsb = 1)
             IN  IF up THEN BigAdd(trunc, Pow2Big(d)) ELSE trunc

\* x + y on floats
FloatAdd(x, y) == RoundToMantissa(BigAdd(x, y), FALSE)

\* x / n for a float x and an integer n > 0
FloatDiv(x, n) ==
    LET d == DivLimbs(x, n, NumLimbs, 0)
    IN  RoundToMantissa(d.quot, d.rem /= 0)

\* a / b for integers a >= 0, b > 0 (Python's true division)
IntDiv(a, b) == FloatDiv(FloatOfInt(a), b)

\* sum(xs) for a list of floats, left to right
RECURSIVE FloatSum(_)
FloatSum(xs) ==
    IF xs = <<>> THEN FloatZero
    ELSE FloatAdd(FloatSum(SubSeq(xs, 1, Len(xs) - 1)), xs[Len(xs)])

(***************************************************************************)
(* equity.py.  An Optional value is None, written <<>>, or <<v>>.          *)
(***************************************************************************)
None == <<>>

PlayerEquity(w, t, n) == [win_count |-> w, tie_count |-> t, total_simulations |-> n]

win_rate(p) ==
    IF p.total_simulations = 0 THEN FloatZero
    ELSE IntDiv(p.win_count, p.total_simulations)

tie_rate(p) ==
    IF p.total_simulations = 0 THEN FloatZero
    ELSE IntDiv(p.tie_count, p.total_simulations)

equity(p) ==
    IF p.total_simulations = 0 THEN FloatZero
    ELSE FloatAdd(win_rate(p), FloatDiv(tie_rate(p), 2))

EquityAccumulator == [wins |-> <<>>, ties |-> <<>>, equity_sum |-> <<>>, total |-> 0]

init_players(acc, num_players) ==
    [acc EXCEPT !.wins = [i \in 1..num_players |-> 0],
                !.ties = [i \in 1..num_players |-> 0],
                !.equity_sum = [i \in 1..num_players |-> FloatZero]]

\* for idx in winner_indices: ties[idx] += 1; equity_sum[idx] += share
RECURSIVE RecordShares(_, _, _)
RecordShares(acc, winner_indices, share) ==
    IF winner_indices = <<>> THEN acc
    ELSE LET idx == Head(winner_indices) + 1
         IN  RecordShares([acc EXCEPT !.ties[idx] = @ + 1,
                                      !.equity_sum[idx] = FloatAdd(@, share)],
                          Tail(winner_indices), share)

\* every tied winner is credited a whole pot
record_whole_pot(acc, winner_indices) ==
    LET a == [acc EXCEPT !.total = @ + 1]
        num_winners == Len(winner_indices)
    IN  IF num_winners = 1
        THEN LET idx == winner_indices[1] + 1
             IN  [a EXCEPT !.wins[idx] = @ + 1,
                           !.equity_sum[idx] = FloatAdd(@, FloatOfInt(1))]
        ELSE RecordShares(a, winner_indices, FloatOfInt(1))

\* EquityAccumulator.record; winner_indices comes from find_winners and is
\* never empty
record(acc, winner_indices) ==
    LET a == [acc EXCEPT !.total = @ + 1]
        num_winners == Len(winner_indices)
    IN  IF num_winners = 1
        THEN LET idx == winner_indices[1] + 1
             IN  [a EXCEPT !.wins[idx] = @ + 1,
                           !.equity_sum[idx] = FloatAdd(@, FloatOfInt(1))]
        ELSE RecordShares(a, winner_indices,
                          FloatDiv(FloatOfInt(1), num_winners))

\* lists[1] + ... + lists[n]
RECURSIVE ConcatUpTo(_, _)
ConcatUpTo(lists, n) ==
    IF n = 0 THEN <<>> ELSE ConcatUpTo(lists, n - 1) \o lists[n]

Concat(lists) == TheOne({ConcatUpTo(l, Len(l)) : l \in {lists}})

\* EquityRequest.__post_init__: "" or the exception it raises
post_init(req) ==
    IF Len(req.players) < 2 THEN "ValueError: Need at least 2 players"
    ELSE IF Len(req.board) > 5 THEN "ValueError: Board can have at most 5 cards"
    ELSE LET all_cards == req.board \o Concat(req.players)
         IN  IF Len(all_cards) /= Cardinality(Range(all_cards))
             THEN "ValueError: Duplicate cards"
             ELSE ""

(***************************************************************************)
(* random.Random.  The generator is the standard library's; what the code  *)
(* relies on is that Random(seed) with an integer seed starts in a state   *)
(* that is a function of the seed, that Random(None) starts in a state     *)
(* taken from the system's entropy, and that every draw is a function of   *)
(* the state.  The model keeps that with a small congruential generator.   *)
(***************************************************************************)
RngNext(state) == (state * 75 + 74) % 65537

\* Random() whatever the seed
SeedStates_unseeded(seed) == 1..MaxEntropy

\* the states random.Random(seed) can start in
SeedStates(seed) ==
    IF seed = None THEN 1..MaxEntropy ELSE {seed[1] % 65537}

\* rng.shuffle(x), the iterations i, i-1, ..., 1 of
\*     for i in reversed(range(1, len(x))):
\*         j = randbelow(i + 1); x[i], x[j] = x[j], x[i]
RECURSIVE ShuffleFrom(_, _, _)
ShuffleFrom(x, state, i) ==
    IF i < 1 THEN [x |-> x, state |-> state]
    ELSE LET next == RngNext(state)
             j == next % (i + 1)
         IN  ShuffleFrom([x EXCEPT ![i + 1] = x[j + 1], ![j + 1] = x[i + 1]],
                         next, i - 1)

shuffle(x, state) == ShuffleFrom(x, state, Len(x) - 1)

EquityResult(players, total, convergence) ==
    [players |-> players, total_simulations |-> total, convergence |-> convergence]

NoResult == EquityResult(<<>>, 0, None)

EquityRequest(players, board, num_simulations, seed, track, interval) ==
    [players |-> players, board |-> board, num_simulations |-> num_simulations,
     seed |-> seed, track_convergence |-> track, convergence_interval |-> interval]

\* no request has been made
EquityIdle ==
    /\ eq_pc = "idle"
    /\ eq_req = EquityRequest(<<>>, <<>>, 0, None, FALSE, 100)
    /\ eq_err = ""
    /\ eq_run = 0
    /\ eq_rng = 0
    /\ eq_deck = <<>>
    /\ eq_sim = 0
    /\ eq_acc = EquityAccumulator
    /\ eq_winners = <<>>
    /\ eq_conv = <<>>
    /\ eq_res = NoResult
    /\ eq_prev = NoResult

\* no evaluator call is under way
EvalIdle ==
    /\ ev_hands = <<>>
    /\ ev_op = "none"
    /\ ev_err = ""
    /\ ev_rank = NoRank
    /\ ev_winners = <<>>

(***************************************************************************)
(* draws.py.  A rank mask is the integer the code builds: bit r - 1 is set *)
(* when rank r is held, and bit 0 as well when the Ace is.                 *)
(***************************************************************************)
FLUSH_DRAW        == 1
BACKDOOR_FLUSH    == 2
OPEN_ENDED        == 3
GUTSHOT           == 4
DOUBLE_GUTSHOT    == 5
BACKDOOR_STRAIGHT == 6

FlushDraw(suit, cards_held, outs, is_nut) ==
    [suit |-> suit, cards_held |-> cards_held, outs |-> outs, is_nut |-> is_nut]

\* FlushDraw.draw_type
flush_draw_type(fd) == IF fd.cards_held >= 4 THEN FLUSH_DRAW ELSE BACKDOOR_FLUSH

StraightDraw(draw_type, needed_ranks, outs, high_card, is_nut) ==
    [draw_type |-> draw_type, needed_ranks |-> needed_ranks, outs |-> outs,
     high_card |-> high_card, is_nut |-> is_nut]

DrawAnalysis(hole_cards, board, has_flush, has_straight, flush_draws, straight_draws, total_outs, all_outs) ==
    [hole_cards |-> hole_cards, board |-> board, has_flush |-> has_flush,
     has_straight |-> has_straight, flush_draws |-> flush_draws,
     straight_draws |-> straight_draws, total_outs |-> total_outs,
     all_outs |-> all_outs]

NoAnalysis == DrawAnalysis(<<>>, <<>>, FALSE, FALSE, <<>>, <<>>, 0, <<>>)

Reverse(s) == [i \in 1..Len(s) |-> s[Len(s) + 1 - i]]

\* sorted(s) for a list of integers
sorted(s) == Reverse(SortedDesc(s))

Max(s) == CHOOSE m \in Range(s) : \A x \in Range(s) : x <= m

Min(s) == CHOOSE m \in Range(s) : \A x \in Range(s) : m <= x

\* mask & (1 << i) is not zero
BitSet(mask, i) == (mask \div (2^i)) % 2 = 1

\* mask | (1 << i)
OrBit(mask, i) == IF BitSet(mask, i) THEN mask ELSE mask + 2^i

\* is_nut = hero_has_ace: an Ace on the board or dead does not count
SuitFlushDraw_hero_ace(suit, all_cards, hole_cards, dead_cards, board_size) ==
    LET count == Cardinality({i \in DOMAIN all_cards : all_cards[i].suit = suit})
        known_cards == Range(all_cards) \cup dead_cards
        outs == SelectSeq([k \in 1..13 |-> Card(k + 1, suit)],
                          LAMBDA c : c \notin known_cards)
    IN  IF count < 3 THEN <<>>
        ELSE IF count = 3 /\ board_size > 3 THEN <<>>
        ELSE IF count >= 5 THEN <<>>
        ELSE <<FlushDraw(suit, count, Reverse(outs),
                         Card(ACE, suit) \in Range(hole_cards))>>

\* the flush draw of one suit, as a list of none or one
SuitFlushDraw(suit, all_cards, hole_cards, dead_cards, board_size) ==
    LET count == Cardinality({i \in DOMAIN all_cards : all_cards[i].suit = suit})
        known_cards == Range(all_cards) \cup dead_cards
        outs == SelectSeq([k \in 1..13 |-> Card(k + 1, suit)],
                          LAMBDA c : c \notin known_cards)
        ace_of_suit == Card(ACE, suit)
        hero_has_ace == ace_of_suit \in Range(hole_cards)
        ace_on_board == ace_of_suit \in Range(all_cards)
                            /\ ace_of_suit \notin Range(hole_cards)
        ace_is_dead == ace_of_suit \in dead_cards
    IN  IF count < 3 THEN <<>>
        ELSE IF count = 3 /\ board_size > 3 THEN <<>>
        ELSE IF count >= 5 THEN <<>>
        ELSE <<FlushDraw(suit, count, Reverse(outs),
                         hero_has_ace \/ ace_on_board \/ ace_is_dead)>>

_analyze_flush_draws(all_cards, hole_cards, dead_cards, board_size) ==
    Concat([k \in 1..4 |->
               SuitFlushDraw(k - 1, all_cards, hole_cards, dead_cards, board_size)])

\* mask after "mask |= 1 << (card.rank.value - 1)" for the first n cards
RECURSIVE RankBits(_, _)
RankBits(cards, n) ==
    IF n = 0 THEN 0
    ELSE TheOne({OrBit(mask, cards[n].rank - 1) : mask \in {RankBits(cards, n - 1)}})

_build_rank_mask(cards) ==
    TheOne({IF BitSet(mask, 13) THEN OrBit(mask, 0) ELSE mask :
               mask \in {RankBits(cards, Len(cards))}})

RECURSIVE _count_bits(_)
_count_bits(n) == IF n = 0 THEN 0 ELSE (n % 2) + _count_bits(n \div 2)

\* every card of the needed ranks, known or not
_get_straight_outs_unfiltered(needed_ranks, known_cards) ==
    Concat([k \in DOMAIN needed_ranks |->
               [j \in 1..4 |-> Card(needed_ranks[k], j - 1)]])

_get_straight_outs(needed_ranks, known_cards) ==
    Concat([k \in DOMAIN needed_ranks |->
               SelectSeq([j \in 1..4 |-> Card(needed_ranks[k], j - 1)],
                         LAMBDA c : c \notin known_cards)])

\* positions i in range(n) whose bit of window is clear
Gaps(window, n) ==
    SelectSeq([i \in 1..n |-> i - 1], LAMBDA i : ~BitSet(window, i))

\* A dict is a list of [key, val] entries in insertion order.
HasKey(dict, key) == \E i \in DOMAIN dict : dict[i].key = key

KeyIndex(dict, key) == CHOOSE i \in DOMAIN dict : dict[i].key = key

\* four_card_patterns[key] = [v]: the needed ranks found before are lost
DictAppend_overwrite(dict, key, v) ==
    IF HasKey(dict, key)
    THEN [dict EXCEPT ![KeyIndex(dict, key)].val = <<v>>]
    ELSE Append(dict, [key |-> key, val |-> <<v>>])

\* four_card_patterns[key].append(v), the key being created when missing
DictAppend(dict, key, v) ==
    IF HasKey(dict, key)
    THEN [dict EXCEPT ![KeyIndex(dict, key)].val = Append(@, v)]
    ELSE Append(dict, [key |-> key, val |-> <<v>>])

\* the 5-bit window of the straight ending at high
Window5(rank_mask, high) ==
    IF high = 5 THEN rank_mask % 32
    ELSE (rank_mask \div (2^(high - 5))) % 32

\* the body of "for high in range(5, 15)": four_card_patterns after it
PatternStep(rank_mask, high, four_card_patterns) ==
         LET window == Window5(rank_mask, high)
             gap_positions == Gaps(window, 5)
             gap == gap_positions[1]
             rank_map == <<14, 2, 3, 4, 5>>
             needed_rank == IF high = 5 THEN rank_map[gap + 1] ELSE (high - 4) + gap
             held_ranks ==
                 IF high = 5
                 THEN SelectSeq(rank_map, LAMBDA r : r /= needed_rank)
                 ELSE SelectSeq([k \in 1..5 |-> high - 5 + k],
                                LAMBDA r : r /= needed_rank)
         IN  IF _count_bits(window) = 4 /\ Len(gap_positions) = 1
             THEN DictAppend(four_card_patterns, sorted(held_ranks), needed_rank)
             ELSE four_card_patterns

\* four_card_patterns after the iterations 5, ..., high
RECURSIVE ScanPatterns(_, _)
ScanPatterns(rank_mask, high) ==
    IF high < 5 THEN <<>>
    ELSE TheOne({PatternStep(rank_mask, high, four_card_patterns) :
                    four_card_patterns \in {ScanPatterns(rank_mask, high - 1)}})

\* the body of "for held_ranks, needed_ranks in four_card_patterns.items()":
\* the draws it appends
ClassifyPattern(held_ranks, needed_ranks, known_cards) ==
    LET needed_ranks_list == Reverse(SetDesc(Range(needed_ranks)))
        is_wheel_pattern == 14 \in Range(held_ranks) /\ 2 \in Range(held_ranks)
    IN  IF Len(needed_ranks_list) = 2
        THEN LET high_card ==
                     IF is_wheel_pattern THEN Max(needed_ranks_list)
                     ELSE IF Max(needed_ranks_list) > Max(held_ranks)
                          THEN Max(held_ranks) + 1
                          ELSE Max(held_ranks)
             IN  <<StraightDraw(OPEN_ENDED, needed_ranks_list,
                                _get_straight_outs(needed_ranks_list, known_cards),
                                high_card, high_card = 14)>>
        ELSE IF Len(needed_ranks_list) = 1
        THEN LET needed_rank == needed_ranks_list[1]
                 all_straight_ranks == sorted(sorted(held_ranks) \o <<needed_rank>>)
                 high_card ==
                     IF is_wheel_pattern /\ needed_rank = 5 THEN 5
                     ELSE IF 14 \in Range(all_straight_ranks)
                             /\ 2 \in Range(all_straight_ranks)
                          THEN IF needed_rank <= 5 THEN 5
                               ELSE Max(all_straight_ranks)
                          ELSE Max(all_straight_ranks)
                 min_held == Min(SelectSeq(held_ranks, LAMBDA r : r /= 14))
                 max_held == Max(held_ranks)
                 draw_type ==
                     IF is_wheel_pattern THEN GUTSHOT
                     ELSE IF needed_rank < min_held \/ needed_rank > max_held
                          THEN GUTSHOT
                          ELSE GUTSHOT
             IN  <<StraightDraw(draw_type, <<needed_rank>>,
                                _get_straight_outs(needed_ranks_list, known_cards),
                                high_card, high_card = 14)>>
        ELSE <<>>

\* the 6-bit window of _detect_double_gutshots
Window6(rank_mask, high) ==
    IF high = 7
    THEN IF BitSet(rank_mask, 0) THEN OrBit(rank_mask % 64, 5) ELSE rank_mask % 64
    ELSE (rank_mask \div (2^(high - 6))) % 64

\* the body of "for high in range(7, 15)": the draws it appends
DoubleGutshotAt(rank_mask, known_cards, high) ==
    LET window == Window6(rank_mask, high)
        gaps == Gaps(window, 6)
        low_rank == high - 5
        needed_ranks == [k \in DOMAIN gaps |-> low_rank + gaps[k]]
        outs == _get_straight_outs(needed_ranks, known_cards)
    IN  IF _count_bits(window) /= 4 THEN <<>>
        ELSE IF Len(gaps) /= 2 THEN <<>>
        ELSE IF 0 \in Range(gaps) \/ 5 \in Range(gaps) THEN <<>>
        ELSE IF \E k \in DOMAIN needed_ranks :
                   needed_ranks[k] < 2 \/ needed_ranks[k] > 14 THEN <<>>
        ELSE IF outs = <<>> THEN <<>>
        ELSE <<StraightDraw(DOUBLE_GUTSHOT, needed_ranks, outs, high, high = 14)>>

_detect_double_gutshots(rank_mask, known_cards) ==
    Concat([k \in 1..8 |-> DoubleGutshotAt(rank_mask, known_cards, k + 6)])

\* the body of "for high in range(4, 15)": the draws it appends
BackdoorAt(rank_mask, known_cards, high) ==
    IF high = 4
    THEN IF _count_bits(rank_mask % 8) = 3
         THEN <<StraightDraw(BACKDOOR_STRAIGHT, <<4, 5>>,
                             _get_straight_outs(<<4, 5>>, known_cards), 5, FALSE)>>
         ELSE <<>>
    ELSE LET window == (rank_mask \div (2^(high - 3))) % 8
             ends == IF high < 14 THEN <<high - 3, high + 1>> ELSE <<high - 3>>
             needed == SelectSeq(ends, LAMBDA r : 2 <= r /\ r <= 14)
             outs == _get_straight_outs(needed, known_cards)
         IN  IF _count_bits(window) = 3 /\ needed /= <<>> /\ outs /= <<>>
             THEN <<StraightDraw(BACKDOOR_STRAIGHT, needed, outs,
                                 IF high + 1 < 14 THEN high + 1 ELSE 14,
                                 high + 1 >= 14)>>
             ELSE <<>>

_detect_backdoor_straights(rank_mask, known_cards) ==
    Concat([k \in 1..11 |-> BackdoorAt(rank_mask, known_cards, k + 3)])

\* "if key not in d or draw.out_count > d[key].out_count: d[key] = draw"
KeepStep(dict, key, draw) ==
    IF ~HasKey(dict, key) THEN Append(dict, [key |-> key, val |-> draw])
    ELSE IF Len(draw.outs) > Len(dict[KeyIndex(dict, key)].val.outs)
         THEN [dict EXCEPT ![KeyIndex(dict, key)].val = draw]
         ELSE dict

\* the dict after the first n draws, keys[i] being the key of draws[i]
RECURSIVE KeepBest(_, _, _)
KeepBest(draws, keys, n) ==
    IF n = 0 THEN <<>>
    ELSE TheOne({KeepStep(dict, keys[n], draws[n]) :
                    dict \in {KeepBest(draws, keys, n - 1)}})

Values(dict) == [i \in DOMAIN dict |-> dict[i].val]

_deduplicate_straight_draws(draws) ==
    IF draws = <<>> THEN draws
    ELSE TheOne({Values(KeepBest(kept, [i \in DOMAIN kept |-> kept[i].needed_ranks],
                                 Len(kept))) :
                    kept \in {Values(KeepBest(
                                 draws,
                                 [i \in DOMAIN draws |->
                                     <<draws[i].high_card, draws[i].draw_type>>],
                                 Len(draws)))}})

\* the draws of the classification loop
Classified(four_card_patterns, known_cards) ==
    Concat([k \in DOMAIN four_card_patterns |->
               ClassifyPattern(four_card_patterns[k].key, four_card_patterns[k].val,
                               known_cards)])

\* straight_draws after the double gutshots and the backdoor draws
Extended(straight_draws, rank_mask, known_cards, board_size) ==
    TheOne({IF board_size <= 3 /\ with_double = <<>>
            THEN _detect_backdoor_straights(rank_mask, known_cards)
            ELSE with_double :
               with_double \in
                   {IF board_size < 5
                    THEN straight_draws
                             \o _detect_double_gutshots(rank_mask, known_cards)
                    ELSE straight_draws}})

_analyze_straight_draws(all_cards, dead_cards, board_size) ==
    TheOne({_deduplicate_straight_draws(
                Extended(Classified(ScanPatterns(rank_mask, 14), known_cards),
                         rank_mask, known_cards, board_size)) :
               rank_mask \in {_build_rank_mask(all_cards)},
               known_cards \in {Range(all_cards) \cup dead_cards}})

\* <<has_flush, has_straight>>
_check_made_hands(all_cards) ==
    IF Len(all_cards) < 5 THEN <<FALSE, FALSE>>
    ELSE LET hand_rank == evaluate_hand(all_cards).rank
         IN  <<hand_rank.hand_type \in {FLUSH, STRAIGHT_FLUSH, ROYAL_FLUSH},
               hand_rank.hand_type \in {STRAIGHT, STRAIGHT_FLUSH, ROYAL_FLUSH}>>

\* sorted(cards, key=lambda c: (-c.rank.value, c.suit.value)) for a set
RECURSIVE SortOuts(_)
SortOuts(S) ==
    IF S = {} THEN <<>>
    ELSE LET c == CHOOSE c \in S : \A d \in S :
                      \/ d.rank < c.rank
                      \/ d.rank = c.rank /\ c.suit <= d.suit
         IN  <<c>> \o SortOuts(S \ {c})

\* analyze_draws: the exception raised, or "" and the DrawAnalysis
\* the end of analyze_draws, from all_outs_set on
Analysis(hole_cards, board, made, flush_draws, straight_draws) ==
    TheOne({DrawAnalysis(hole_cards, board, made[1], made[2], flush_draws,
                         straight_draws, Cardinality(all_outs_set),
                         SortOuts(all_outs_set)) :
               all_outs_set \in
                   {UNION {Range(flush_draws[i].outs) : i \in DOMAIN flush_draws}
                        \cup UNION {Range(straight_draws[i].outs) :
                                       i \in DOMAIN straight_draws}}})

\* analyze_draws after the validation, made being <<has_flush, has_straight>>
Analyzed(hole_cards, board, dead_set, made) ==
    TheOne({Analysis(hole_cards, board, made, flush_draws, straight_draws) :
               flush_draws \in
                   {IF ~made[1]
                    THEN _analyze_flush_draws(hole_cards \o board, hole_cards,
                                              dead_set, Len(board))
                    ELSE <<>>},
               straight_draws \in
                   {IF ~made[2]
                    THEN _analyze_straight_draws(hole_cards \o board, dead_set,
                                                 Len(board))
                    ELSE <<>>}})

analyze_draws(hole_cards, board, dead_cards) ==
    LET all_input == hole_cards \o board \o dead_cards
    IN  IF Len(hole_cards) /= 2
        THEN [err |-> "ValueError: Must provide exactly 2 hole cards",
              analysis |-> NoAnalysis]
        ELSE IF Len(board) > 5
        THEN [err |-> "ValueError: Board can have at most 5 cards",
              analysis |-> NoAnalysis]
        ELSE IF Len(all_input) /= Cardinality(Range(all_input))
        THEN [err |-> "ValueError: Duplicate cards detected", analysis |-> NoAnalysis]
        ELSE [err |-> "",
              analysis |-> TheOne({Analyzed(hole_cards, board, Range(dead_cards), made) :
                                      made \in {_check_made_hands(hole_cards \o board)}})]

\* no call of analyze_draws has been made
DrawsIdle ==
    /\ dr_hole = <<>>
    /\ dr_board = <<>>
    /\ dr_dead = <<>>
    /\ dr_op = "none"
    /\ dr_err = ""
    /\ dr_res = NoAnalysis

(***************************************************************************)
(* canonize.py.  A combo is the pair <<card1, card2>> the code returns.    *)
(***************************************************************************)
CanonicalHand(high_rank, low_rank, suited) ==
    [high_rank |-> high_rank, low_rank |-> low_rank, suited |-> suited]

\* no CanonicalHand (no rank is 0)
NoHand == CanonicalHand(0, 0, FALSE)

\* CanonicalHand.__post_init__: "" or the exception it raises
CanonicalHand_post_init(h) ==
    IF h.high_rank < h.low_rank THEN "ValueError: high_rank must be >= low_rank"
    ELSE IF h.high_rank = h.low_rank /\ h.suited THEN "ValueError: Pairs cannot be suited"
    ELSE ""

is_pair(h) == h.high_rank = h.low_rank

num_combos(h) == IF is_pair(h) THEN 6 ELSE IF h.suited THEN 4 ELSE 12

\* canonize_hole_cards taking the first card's rank for the high rank
canonize_hole_cards_unordered(cards) ==
    IF Len(cards) /= 2
    THEN [err |-> "ValueError: Hole cards must be exactly 2 cards", hand |-> NoHand]
    ELSE LET hand == CanonicalHand(cards[1].rank, cards[2].rank,
                                   cards[1].suit = cards[2].suit
                                       /\ cards[1].rank /= cards[2].rank)
         IN  [err |-> CanonicalHand_post_init(hand),
              hand |-> IF CanonicalHand_post_init(hand) = "" THEN hand ELSE NoHand]

\* [err, hand]
canonize_hole_cards(cards) ==
    IF Len(cards) /= 2
    THEN [err |-> "ValueError: Hole cards must be exactly 2 cards", hand |-> NoHand]
    ELSE LET c1 == cards[1]
             c2 == cards[2]
             high_rank == IF c1.rank >= c2.rank THEN c1.rank ELSE c2.rank
             low_rank == IF c1.rank >= c2.rank THEN c2.rank ELSE c1.rank
             suited == c1.suit = c2.suit /\ high_rank /= low_rank
             hand == CanonicalHand(high_rank, low_rank, suited)
         IN  [err |-> CanonicalHand_post_init(hand),
              hand |-> IF CanonicalHand_post_init(hand) = "" THEN hand ELSE NoHand]

\* list(Suit)
SuitList == <<CLUBS, DIAMONDS, HEARTS, SPADES>>

\* the offsuit branch for every pair of suits, equal or not
OffsuitCombos_any(h) ==
    Concat([i \in 1..4 |->
               [j \in 1..4 |->
                   <<Card(h.high_rank, SuitList[i]), Card(h.low_rank, SuitList[j])>>]])

\* "for s1 in Suit: for s2 in Suit: if s1 != s2: combos.append(...)"
OffsuitCombos(h) ==
    Concat([i \in 1..4 |->
               Concat([j \in 1..4 |->
                          IF SuitList[i] /= SuitList[j]
                          THEN <<<<Card(h.high_rank, SuitList[i]),
                                   Card(h.low_rank, SuitList[j])>>>>
                          ELSE <<>>])])

get_all_combos(canonical) ==
    IF is_pair(canonical)
    THEN LET pairs == Combinations(1, 4, 2)
         IN  [k \in DOMAIN pairs |->
                 <<Card(canonical.high_rank, SuitList[pairs[k][1]]),
                   Card(canonical.low_rank, SuitList[pairs[k][2]])>>]
    ELSE IF canonical.suited
    THEN [k \in 1..4 |-> <<Card(canonical.high_rank, SuitList[k]),
                           Card(canonical.low_rank, SuitList[k])>>]
    ELSE OffsuitCombos(canonical)

\* list(reversed(Rank))
RanksDown == [k \in 1..13 |-> 15 - k]

\* the non-pair hands with the low rank ascending within a high rank
NonPairs_low_up(suited) ==
    Concat([i \in 1..13 |->
               Concat([j \in 1..13 |->
                          IF RanksDown[i] > RanksDown[14 - j]
                          THEN <<CanonicalHand(RanksDown[i], RanksDown[14 - j], suited)>>
                          ELSE <<>>])])

\* "for high in reversed(Rank): for low in reversed(Rank): if high > low"
NonPairs(suited) ==
    Concat([i \in 1..13 |->
               Concat([j \in 1..13 |->
                          IF RanksDown[i] > RanksDown[j]
                          THEN <<CanonicalHand(RanksDown[i], RanksDown[j], suited)>>
                          ELSE <<>>])])

get_all_canonical_hands ==
    [k \in 1..13 |-> CanonicalHand(RanksDown[k], RanksDown[k], FALSE)]
        \o NonPairs(TRUE) \o NonPairs(FALSE)

\* the combos with the second card dead kept
get_combos_excluding_first(canonical, dead_cards) ==
    SelectSeq(get_all_combos(canonical), LAMBDA c : c[1] \notin Range(dead_cards))

get_combos_excluding(canonical, dead_cards) ==
    LET dead_set == Range(dead_cards)
    IN  SelectSeq(get_all_combos(canonical),
                  LAMBDA c : c[1] \notin dead_set /\ c[2] \notin dead_set)

\* no call of canonize.py has been made
CanonIdle ==
    /\ cn_cards = <<>>
    /\ cn_hand = NoHand
    /\ cn_dead = <<>>
    /\ cn_op = "none"
    /\ cn_err = ""
    /\ cn_canon = NoHand
    /\ cn_combos = <<>>
    /\ cn_hands = <<>>
    /\ cn_prev = <<>>

(***************************************************************************)
(* cards.py, class Deck.  A deck is the record of self._cards,             *)
(* self._removed and the state of self._rng.                               *)
(***************************************************************************)
DeckOf(cards, removed, rng) == [cards |-> cards, removed |-> removed, rng |-> rng]

\* cards[:n] and cards[n:], a negative n counting from the end
Take(cards, n) ==
    IF n >= 0 THEN SubSeq(cards, 1, IF n < Len(cards) THEN n ELSE Len(cards))
    ELSE SubSeq(cards, 1, IF Len(cards) + n > 0 THEN Len(cards) + n ELSE 0)

Drop(cards, n) ==
    IF n >= 0 THEN SubSeq(cards, (IF n < Len(cards) THEN n ELSE Len(cards)) + 1, Len(cards))
    ELSE SubSeq(cards, (IF Len(cards) + n > 0 THEN Len(cards) + n ELSE 0) + 1, Len(cards))

\* Deck.reset that forgets self._removed: all 52 cards come back
Deck_reset_full(deck) ==
    TheOne({DeckOf(sh.x, deck.removed, sh.state) :
               sh \in {shuffle(FULL_DECK, deck.rng)}})

\* Deck.reset
Deck_reset(deck) ==
    TheOne({DeckOf(sh.x, deck.removed, sh.state) :
               sh \in {shuffle(SelectSeq(FULL_DECK, LAMBDA c : c \notin deck.removed),
                               deck.rng)}})

\* Deck.__init__, the generator starting in the given state
Deck_init(state) == Deck_reset(DeckOf(<<>>, {}, state))

\* Deck.shuffle
Deck_shuffle(deck) ==
    TheOne({DeckOf(sh.x, deck.removed, sh.state) :
               sh \in {shuffle(deck.cards, deck.rng)}})

\* Deck.deal that hands out the top cards and leaves them in the deck
Deck_deal_keep(deck, n) ==
    IF n > Len(deck.cards)
    THEN [err |-> "ValueError: Cannot deal", out |-> <<>>, deck |-> deck]
    ELSE [err |-> "", out |-> SubSeq(deck.cards, 1, n), deck |-> deck]

\* Deck.deal: [err, out, deck]
Deck_deal(deck, n) ==
    IF n > Len(deck.cards)
    THEN [err |-> "ValueError: Cannot deal", out |-> <<>>, deck |-> deck]
    ELSE [err |-> "", out |-> Take(deck.cards, n),
          deck |-> [deck EXCEPT !.cards = Drop(deck.cards, n)]]

\* Deck.peek: [err, out]
Deck_peek(deck, n) ==
    IF n > Len(deck.cards)
    THEN [err |-> "ValueError: Cannot peek", out |-> <<>>]
    ELSE [err |-> "", out |-> Take(deck.cards, n)]

\* Deck.remove from the card at position i on: [err, deck].  The cards taken
\* out before an exception stay out.
RECURSIVE RemoveFrom(_, _, _)
RemoveFrom(deck, cards, i) ==
    IF i > Len(cards) THEN [err |-> "", deck |-> deck]
    ELSE IF cards[i] \notin Range(deck.cards)
    THEN [err |-> IF cards[i] \in deck.removed
                  THEN "ValueError: already removed"
                  ELSE "ValueError: not in deck",
          deck |-> deck]
    ELSE TheOne({RemoveFrom(rest, cards, i + 1) :
                    rest \in {DeckOf(SelectSeq(deck.cards, LAMBDA c : c /= cards[i]),
                                     deck.removed \cup {cards[i]}, deck.rng)}})

Deck_remove(deck, cards) == RemoveFrom(deck, cards, 1)

\* no Deck has been constructed
DeckIdle ==
    /\ dk_cards = <<>>
    /\ dk_removed = {}
    /\ dk_rng = 0
    /\ dk_op = "none"
    /\ dk_err = ""
    /\ dk_out = <<>>
    /\ dk_calls = 0
    /\ dk_gone = {}
    /\ dk_dealt = {}
    /\ dk_n = 0
    /\ dk_req = <<>>
    /\ dk_round = {}

(***************************************************************************)
(* event_log.py: Event and EventLog.  An event is its type, its sequence   *)
(* number and its data; the timestamp, which nothing reads, is left out.   *)
(* A log is the list of its events.  A dict is a function on its keys.     *)
(***************************************************************************)
Event(event_type, sequence, data) ==
    [event_type |-> event_type, sequence |-> sequence, data |-> data]

\* EventLog.append numbering from one
LogAppend_from_one(log, event_type, data) ==
    Append(log, Event(event_type, Len(log) + 1, data))

\* EventLog.append
LogAppend(log, event_type, data) ==
    Append(log, Event(event_type, Len(log), data))

\* d[k] = v
SetKey(d, k, v) == [x \in DOMAIN d \cup {k} |-> IF x = k THEN v ELSE d[x]]

EmptyDict == [x \in {} |-> 0]

(***************************************************************************)
(* game_state.py.  A game is the record of the fields of GameState; the    *)
(* hole cards of seat i are players[i + 1], and every player is active.    *)
(***************************************************************************)
PRE_DEAL == 1
PRE_FLOP == 2
FLOP == 3
TURN == 4
RIVER == 5
SHOWDOWN == 6
COMPLETE == 7

StreetName ==
    <<"PRE_DEAL", "PRE_FLOP", "FLOP", "TURN", "RIVER", "SHOWDOWN", "COMPLETE">>

PotResult(winners, winning_hand, pot_share) ==
    [winners |-> winners, winning_hand |-> winning_hand, pot_share |-> pot_share]

\* GameState.__init__ with a deck shuffled from the generator state given
GameState_init(num_players, seed, state) ==
    [num_players |-> num_players,
     deck |-> Deck_init(state),
     street |-> PRE_DEAL,
     board |-> <<>>,
     players |-> [i \in 1..num_players |-> <<>>],
     result |-> None,
     event_log |-> LogAppend(<<>>, "init_hand",
                             [num_players |-> num_players, seed |-> seed])]

Ok(g) == [err |-> "", g |-> g]

Raise(err, g) == [err |-> err, g |-> g]

\* the loop of deal_hole_cards from the player at index i on
RECURSIVE DealHoleFrom(_, _)
DealHoleFrom(g, i) ==
    IF i > Len(g.players) THEN Ok([g EXCEPT !.street = PRE_FLOP])
    ELSE TheOne({
             IF dealt.err /= "" THEN Raise("ValueError", g)
             ELSE TheOne({DealHoleFrom(next, i + 1) :
                     next \in {[g EXCEPT !.deck = dealt.deck,
                                         !.players[i] = dealt.out,
                                         !.event_log = LogAppend(@, "deal_hole",
                                             [player |-> i - 1, cards |-> dealt.out])]}})
             : dealt \in {Deck_deal(g.deck, 2)}})

deal_hole_cards(g) ==
    IF g.street /= PRE_DEAL THEN Raise("RuntimeError", g)
    ELSE DealHoleFrom(g, 1)

deal_flop(g) ==
    IF g.street /= PRE_FLOP THEN Raise("RuntimeError", g)
    ELSE TheOne({
             IF dealt.err /= "" THEN Raise("ValueError", g)
             ELSE Ok([g EXCEPT !.deck = dealt.deck,
                               !.board = @ \o dealt.out,
                               !.street = FLOP,
                               !.event_log = LogAppend(@, "deal_flop",
                                                       [cards |-> dealt.out])])
             : dealt \in {Deck_deal(g.deck, 3)}})

\* deal_turn and deal_river: one card by deck.deal_one()
DealStreet(g, from, to, event_type) ==
    IF g.street /= from THEN Raise("RuntimeError", g)
    ELSE TheOne({
             IF dealt.err /= "" THEN Raise("ValueError", g)
             ELSE Ok([g EXCEPT !.deck = dealt.deck,
                               !.board = Append(@, dealt.out[1]),
                               !.street = to,
                               !.event_log = LogAppend(@, event_type,
                                                       [card |-> dealt.out[1]])])
             : dealt \in {Deck_deal(g.deck, 1)}})

deal_turn(g) == DealStreet(g, FLOP, TURN, "deal_turn")

deal_river(g) == DealStreet(g, TURN, RIVER, "deal_river")

resolve(g) ==
    IF g.street /= RIVER THEN Raise("RuntimeError", g)
    ELSE IF Len(g.board) /= 5 THEN Raise("RuntimeError", g)
    ELSE TheOne({
             IF found.err /= "" THEN Raise(found.err, g)
             ELSE TheOne({
                      Ok([g EXCEPT
                            !.result = <<PotResult(found.winners, winning_hand, pot_share)>>,
                            !.street = COMPLETE,
                            !.event_log =
                                LogAppend(
                                    LogAppend(@, "showdown",
                                        [winners |-> found.winners,
                                         hand_type |-> winning_hand.hand_type]),
                                    "payout", [payouts |-> pot_share])])
                      : winning_hand \in
                            {evaluate_hand(g.players[found.winners[1] + 1] \o g.board).rank},
                        pot_share \in
                            {[seat \in Range(found.winners) |->
                                 IntDiv(1, Len(found.winners))]}})
             : found \in {find_winners([i \in DOMAIN g.players |->
                                           g.players[i] \o g.board])}})

\* one "if self._street == ...: self.deal_...()" of run_to_showdown
StepIfAt(res, street) ==
    IF res.err /= "" \/ res.g.street /= street THEN res
    ELSE IF street = PRE_DEAL THEN deal_hole_cards(res.g)
    ELSE IF street = PRE_FLOP THEN deal_flop(res.g)
    ELSE IF street = FLOP THEN deal_turn(res.g)
    ELSE deal_river(res.g)

run_to_showdown(g) ==
    TheOne({IF at_river.err /= "" THEN at_river ELSE resolve(at_river.g) :
               at_river \in {StepIfAt(at_turn, TURN) :
                   at_turn \in {StepIfAt(at_flop, FLOP) :
                       at_flop \in {StepIfAt(at_pre_flop, PRE_FLOP) :
                           at_pre_flop \in {StepIfAt(Ok(g), PRE_DEAL)}}}}})

\* the loop of equity.calculate_equity from trial sim on: the accumulator
RECURSIVE RunTrials(_, _, _, _, _)
RunTrials(req, deck, state, acc, sim) ==
    IF sim >= req.num_simulations THEN acc
    ELSE TheOne({
             TheOne({RunTrials(req, sh.x, sh.state, next, sim + 1) :
                        next \in {record(acc,
                            find_winners(
                                [i \in DOMAIN req.players |->
                                    req.players[i] \o req.board
                                        \o SubSeq(sh.x, 1, 5 - Len(req.board))]).winners)}})
             : sh \in {shuffle(deck, state)}})

\* GameState.calculate_equity, the generator of the run starting in state
game_calculate_equity(g, num_simulations, state) ==
    IF g.street = PRE_DEAL THEN Raise("RuntimeError", g)
    ELSE IF \E i \in DOMAIN g.players : Len(g.players[i]) /= 2
    THEN Raise("ValueError", g)
    ELSE LET req == EquityRequest(g.players, g.board, num_simulations, None, FALSE, 100)
         IN  IF post_init(req) /= "" THEN Raise("ValueError", g)
             ELSE IF num_simulations <= 0 THEN Raise("ZeroDivisionError", g)
             ELSE TheOne({
                      Ok([g EXCEPT !.event_log = LogAppend(@, "equity_snapshot",
                            [street |-> StreetName[g.street],
                             equities |->
                                 [i \in 0..(Len(req.players) - 1) |->
                                     equity(PlayerEquity(acc.wins[i + 1], acc.ties[i + 1],
                                                         acc.total))]])])
                      : acc \in
                          {RunTrials(req, d, state,
                                     init_players(EquityAccumulator, Len(req.players)), 0) :
                             d \in {SelectSeq(FULL_DECK,
                                        LAMBDA c : c \notin Range(req.board)
                                                       \cup Range(Concat(req.players)))}}})

set_hole_cards(g, seat, cards) ==
    IF Len(cards) /= 2 THEN Raise("ValueError", g)
    ELSE IF ~(0 <= seat /\ seat < g.num_players) THEN Raise("ValueError", g)
    ELSE TheOne({
             IF removed.err /= ""
             THEN Raise("ValueError", [stored EXCEPT !.deck = removed.deck])
             ELSE Ok([stored EXCEPT !.deck = removed.deck,
                                    !.event_log = LogAppend(@, "deal_hole",
                                                      [player |-> seat, cards |-> cards])])
             : stored \in {[g EXCEPT !.players[seat + 1] = cards]},
               removed \in {Deck_remove(g.deck, cards)}})

\* the events set_board logs for a board of 3, 4 or 5 cards
BoardEvents(log, cards) ==
    LET flop == LogAppend(log, "deal_flop", [cards |-> SubSeq(cards, 1, 3)])
        turn == LogAppend(flop, "deal_turn", [card |-> cards[4]])
    IN  IF Len(cards) = 3 THEN flop
        ELSE IF Len(cards) = 4 THEN turn
        ELSE LogAppend(turn, "deal_river", [card |-> cards[5]])

set_board(g, cards) ==
    IF ~(3 <= Len(cards) /\ Len(cards) <= 5) THEN Raise("ValueError", g)
    ELSE TheOne({
             IF removed.err /= ""
             THEN Raise("ValueError", [stored EXCEPT !.deck = removed.deck])
             ELSE Ok([stored EXCEPT !.deck = removed.deck,
                                    !.street = IF Len(cards) = 3 THEN FLOP
                                               ELSE IF Len(cards) = 4 THEN TURN
                                               ELSE RIVER,
                                    !.event_log = BoardEvents(@, cards)])
             : stored \in {[g EXCEPT !.board = cards]},
               removed \in {Deck_remove(g.deck, cards)}})

(***************************************************************************)
(* event_log.py: HandReplayer.  A replayer is the record of its fields     *)
(* besides the log; the cards of the events are Card objects, as in a log  *)
(* written by a GameState.                                                 *)
(***************************************************************************)
HandState(step, event, hole_cards, board, equities, winners, payouts) ==
    [step |-> step, event |-> event, hole_cards |-> hole_cards, board |-> board,
     equities |-> equities, winners |-> winners, payouts |-> payouts]

\* HandReplayer.__init__ and HandReplayer.reset
NewReplayer ==
    [step |-> 0, hole_cards |-> EmptyDict, board |-> <<>>, equities |-> None,
     winners |-> None, payouts |-> None]

\* _process_event whose DEAL_FLOP adds to the board
process_event_extend(r, event) ==
    LET data == event.data
    IN  CASE event.event_type = "init_hand" -> [NewReplayer EXCEPT !.step = r.step]
          [] event.event_type = "deal_hole" ->
                 [r EXCEPT !.hole_cards = SetKey(@, data.player, data.cards)]
          [] event.event_type = "deal_flop" -> [r EXCEPT !.board = @ \o data.cards]
          [] event.event_type \in {"deal_turn", "deal_river"} ->
                 [r EXCEPT !.board = Append(@, data.card)]
          [] event.event_type = "equity_snapshot" ->
                 [r EXCEPT !.equities = <<data.equities>>]
          [] event.event_type = "showdown" -> [r EXCEPT !.winners = <<data.winners>>]
          [] event.event_type = "payout" -> [r EXCEPT !.payouts = <<data.payouts>>]
          [] OTHER -> r

\* HandReplayer._process_event
process_event(r, event) ==
    LET data == event.data
    IN  CASE event.event_type = "init_hand" -> [NewReplayer EXCEPT !.step = r.step]
          [] event.event_type = "deal_hole" ->
                 [r EXCEPT !.hole_cards = SetKey(@, data.player, data.cards)]
          [] event.event_type = "deal_flop" -> [r EXCEPT !.board = data.cards]
          [] event.event_type \in {"deal_turn", "deal_river"} ->
                 [r EXCEPT !.board = Append(@, data.card)]
          [] event.event_type = "equity_snapshot" ->
                 [r EXCEPT !.equities = <<data.equities>>]
          [] event.event_type = "showdown" -> [r EXCEPT !.winners = <<data.winners>>]
          [] event.event_type = "payout" -> [r EXCEPT !.payouts = <<data.payouts>>]
          [] OTHER -> r

\* "dict(x) if x else None": an empty value reads as None
OrNone(x) == IF x = None \/ x[1] = <<>> THEN None ELSE x

\* HandReplayer._get_current_state
get_current_state(r, event) ==
    HandState(r.step, event, r.hole_cards, r.board, OrNone(r.equities),
              OrNone(r.winners), OrNone(r.payouts))

\* HandReplayer.step_forward: [out, r], out being None or <<state>>
step_forward(r, log) ==
    IF r.step >= Len(log) THEN [out |-> None, r |-> r]
    ELSE TheOne({[out |-> <<get_current_state(after, log[r.step + 1])>>,
                  r |-> [after EXCEPT !.step = @ + 1]] :
                    after \in {process_event(r, log[r.step + 1])}})

\* "for _ in range(count): result = self.step_forward()", result being res.out
RECURSIVE StepTimes(_, _, _)
StepTimes(res, log, count) ==
    IF count <= 0 THEN res
    ELSE TheOne({StepTimes(next, log, count - 1) :
                    next \in {step_forward(res.r, log)}})

\* step_backward that replays up to the current event
step_backward_stay(r, log) ==
    IF r.step <= 1 THEN [out |-> None, r |-> r]
    ELSE StepTimes([out |-> None, r |-> NewReplayer], log, r.step)

\* HandReplayer.step_backward
step_backward(r, log) ==
    IF r.step <= 1 THEN [out |-> None, r |-> r]
    ELSE StepTimes([out |-> None, r |-> NewReplayer], log, (r.step - 2) + 1)

\* HandReplayer.goto_step
goto_step(r, log, step) ==
    IF step < 0 \/ step >= Len(log) THEN [out |-> None, r |-> r]
    ELSE StepTimes([out |-> None, r |-> NewReplayer], log, step + 1)

\* the loop of get_all_states: [states, r]
RECURSIVE AllStatesFrom(_, _, _)
AllStatesFrom(r, log, states) ==
    TheOne({IF res.out = None THEN [states |-> states, r |-> r]
            ELSE TheOne({AllStatesFrom(res.r, log, more) :
                            more \in {Append(states, res.out[1])}})
            : res \in {step_forward(r, log)}})

\* HandReplayer.get_all_states
get_all_states(r, log) == AllStatesFrom(NewReplayer, log, <<>>)

\* no GameState has been constructed
GameIdle ==
    /\ gs = [num_players |-> 0, deck |-> DeckOf(<<>>, {}, 0), street |-> PRE_DEAL,
             board |-> <<>>, players |-> <<>>, result |-> None, event_log |-> <<>>]
    /\ gs_op = "none"
    /\ gs_err = ""
    /\ gs_calls = 0
    /\ gs_failed = FALSE

\* no HandReplayer has been constructed
ReplayIdle ==
    /\ rp_log = <<>>
    /\ rp = NewReplayer
    /\ rp_op = "none"
    /\ rp_arg = 0
    /\ rp_out = None
    /\ rp_states = <<>>
    /\ rp_calls = 0
    /\ rp_prev = NewReplayer

(***************************************************************************)
(* The evaluator's specification: a call of evaluate_five, evaluate_hand   *)
(* or find_winners on an input drawn from the pools below.                 *)
(***************************************************************************)
\* the cards the evaluator's inputs are drawn from: prefixes of this list
EvalCardOrder ==
    << Card(14, CLUBS), Card(14, DIAMONDS), Card(14, HEARTS), Card(14, SPADES),
       Card(2, CLUBS), Card(3, CLUBS), Card(4, CLUBS), Card(5, CLUBS),
       Card(6, CLUBS), Card(13, CLUBS), Card(13, DIAMONDS),
       Card(12, CLUBS), Card(11, CLUBS), Card(10, CLUBS),
       Card(13, HEARTS), Card(2, DIAMONDS),
       Card(9, CLUBS), Card(7, DIAMONDS), Card(12, DIAMONDS), Card(3, HEARTS) >>

EvalDeck(n) == {EvalCardOrder[i] : i \in 1..n}

SubsetsOfSize(S, sizes) == {h \in SUBSET S : Cardinality(h) \in sizes}

\* 6- and 7-card hands that hold the royal flush in clubs
RoyalHands ==
    {{Card(r, CLUBS) : r \in 10..14} \cup X :
        X \in SubsetsOfSize({Card(14, DIAMONDS), Card(13, DIAMONDS), Card(9, CLUBS)},
                            {1, 2})}

SingleHands ==
    SubsetsOfSize(EvalDeck(FiveDeckSize), {5})
    \cup SubsetsOfSize(EvalDeck(HandDeckSize), {6, 7})
    \cup SubsetsOfSize(EvalDeck(BadDeckSize), {4, 8})
    \cup RoyalHands

\* showdowns: every player's two hole cards with a shared five-card board
ShowdownHoles ==
    { {Card(14, CLUBS), Card(9, CLUBS)}, {Card(14, DIAMONDS), Card(9, DIAMONDS)},
      {Card(14, HEARTS), Card(14, SPADES)}, {Card(9, HEARTS), Card(2, CLUBS)} }

ShowdownBoards ==
    { {Card(13, SPADES), Card(12, SPADES), Card(11, SPADES), Card(10, SPADES),
       Card(2, HEARTS)},
      {Card(13, SPADES), Card(12, SPADES), Card(11, SPADES), Card(10, SPADES),
       Card(9, SPADES)},
      {Card(13, SPADES), Card(9, SPADES), Card(5, DIAMONDS), Card(2, HEARTS),
       Card(2, SPADES)} }

Showdowns ==
    UNION {{[i \in 1..n |-> CardList(holes[i]) \o CardList(board)] :
                holes \in [1..n -> ShowdownHoles], board \in ShowdownBoards} :
           n \in 2..MaxHands}

EvalInputs == {<<CardList(h)>> : h \in SingleHands} \cup Showdowns \cup {<<>>}

EvalInit ==
    /\ ev_hands \in EvalInputs
    /\ ev_op = "none"
    /\ ev_err = ""
    /\ ev_rank = NoRank
    /\ ev_winners = <<>>
    /\ EquityIdle
    /\ DrawsIdle
    /\ CanonIdle
    /\ DeckIdle
    /\ GameIdle
    /\ ReplayIdle

EvaluateFive ==
    /\ ev_op = "none"
    /\ Len(ev_hands) = 1
    /\ LET res == evaluate_five(ev_hands[1])
       IN  /\ ev_op' = "evaluate_five"
           /\ ev_err' = res.err
           /\ ev_rank' = res.rank
    /\ UNCHANGED <<ev_hands, ev_winners, eq_vars, dr_vars, cn_vars, dk_vars, gs_vars, rp_vars>>

EvaluateHand ==
    /\ ev_op = "none"
    /\ Len(ev_hands) = 1
    /\ LET res == evaluate_hand(ev_hands[1])
       IN  /\ ev_op' = "evaluate_hand"
           /\ ev_err' = res.err
           /\ ev_rank' = res.rank
    /\ UNCHANGED <<ev_hands, ev_winners, eq_vars, dr_vars, cn_vars, dk_vars, gs_vars, rp_vars>>

FindWinners ==
    /\ ev_op = "none"
    /\ LET res == find_winners(ev_hands)
       IN  /\ ev_op' = "find_winners"
           /\ ev_err' = res.err
           /\ ev_winners' = res.winners
    /\ UNCHANGED <<ev_hands, ev_rank, eq_vars, dr_vars, cn_vars, dk_vars, gs_vars, rp_vars>>

EvalNext == EvaluateFive \/ EvaluateHand \/ FindWinners

SpecEval == EvalInit /\ [][EvalNext]_vars


(***************************************************************************)
(* Claims about the evaluator (checked under SpecEval).                    *)
(***************************************************************************)
FiveSubsets(cards) == {CardList(S) : S \in SubsetsOfSize(Range(cards), {5})}

EvaluatedHand == ev_op = "evaluate_hand" /\ ev_err = ""

\* C1: for 5, 6 or 7 distinct cards evaluate_hand returns the HandRank of
\* some 5-card subset, and no 5-card subset has a greater HandRank.
C1_EvaluateHandIsMax ==
    (ev_op = "evaluate_hand" /\ Len(ev_hands[1]) \in 5..7) =>
        /\ ev_err = ""
        /\ \E five \in FiveSubsets(ev_hands[1]) :
               evaluate_five(five).rank = ev_rank
        /\ \A five \in FiveSubsets(ev_hands[1]) :
               ~HandRankLess(ev_rank, evaluate_five(five).rank)

\* a 7-card hand whose best five cards are not the first five
C1_Witness ==
    /\ EvaluatedHand
    /\ Len(ev_hands[1]) = 7
    /\ HandRankLess(evaluate_five(SubSeq(ev_hands[1], 1, 5)).rank, ev_rank)

\* The reference rule for the category of five cards, in priority order.
RefRankSet(h) == {c.rank : c \in h}
RefCount(h, r) == Cardinality({c \in h : c.rank = r})
RefSuited(h) == \E s \in Suits : \A c \in h : c.suit = s
RefWheel(h) == RefRankSet(h) = {14, 5, 4, 3, 2}
RefStraight(h) ==
    /\ Cardinality(RefRankSet(h)) = 5
    /\ \/ \E lo \in Ranks : RefRankSet(h) = lo..(lo + 4)
       \/ RefWheel(h)
RefOfAKind(h, n) == {r \in Ranks : RefCount(h, r) = n}
RefCategory(h) ==
    IF RefSuited(h) /\ RefStraight(h) THEN STRAIGHT_FLUSH
    ELSE IF RefOfAKind(h, 4) /= {} THEN FOUR_OF_A_KIND
    ELSE IF RefOfAKind(h, 3) /= {} /\ RefOfAKind(h, 2) /= {} THEN FULL_HOUSE
    ELSE IF RefSuited(h) THEN FLUSH
    ELSE IF RefStraight(h) THEN STRAIGHT
    ELSE IF RefOfAKind(h, 3) /= {} THEN THREE_OF_A_KIND
    ELSE IF Cardinality(RefOfAKind(h, 2)) = 2 THEN TWO_PAIR
    ELSE IF RefOfAKind(h, 2) /= {} THEN ONE_PAIR
    ELSE HIGH_CARD

RefRoyal(h) == RefSuited(h) /\ RefRankSet(h) = 10..14

EvaluatedFive ==
    ev_op = "evaluate_five" /\ Len(ev_hands) = 1 /\ Len(ev_hands[1]) = 5

\* the 6-high straights among the 5-card inputs, flush or not as asked
SixHighStraights(suited) ==
    {h \in SubsetsOfSize(EvalDeck(FiveDeckSize), {5}) :
        RefRankSet(h) = 2..6 /\ RefSuited(h) = suited}

WheelBelowSixHigh ==
    RefWheel(Range(ev_hands[1])) =>
        /\ ev_rank.primary_ranks = <<5>>
        /\ \A h \in SixHighStraights(RefSuited(Range(ev_hands[1]))) :
               HandRankLess(ev_rank, evaluate_five(CardList(h)).rank)

Ranked == ev_op \in {"evaluate_five", "evaluate_hand"} /\ ev_err = ""

\* the cards given hold T-J-Q-K-A of one suit
HoldsRoyal ==
    \E s \in Suits : {Card(r, s) : r \in 10..14} \subseteq Range(ev_hands[1])

C3_FindWinnersExact ==
    (/\ ev_op = "find_winners"
     /\ ev_hands /= <<>>
     /\ \A i \in DOMAIN ev_hands : Len(ev_hands[i]) \in 5..7) =>
        LET rank == [i \in DOMAIN ev_hands |-> evaluate_hand(ev_hands[i]).rank]
            IsMax(i) == \A j \in DOMAIN ev_hands : ~HandRankLess(rank[i], rank[j])
        IN  /\ ev_err = ""
            /\ ev_winners /= <<>>
            /\ \A k \in 1..(Len(ev_winners) - 1) : ev_winners[k] < ev_winners[k + 1]
            /\ Range(ev_winners) = {i - 1 : i \in {j \in DOMAIN ev_hands : IsMax(j)}}

\* two of three players tie for the best hand and the third loses
C3_Witness ==
    /\ ev_op = "find_winners"
    /\ ev_err = ""
    /\ Len(ev_hands) = 3
    /\ Len(ev_winners) = 2

(***************************************************************************)
(* The equity engine's specification: a request is constructed, which      *)
(* validates it, and calculate_equity is called on it MaxRuns times; one   *)
(* step of a call is its set-up, one iteration of its loop, or its return. *)
(* Seat i holds the pair of rank i + 1 in clubs and diamonds, and the      *)
(* boards are prefixes of a royal flush in spades, so that a trial is won  *)
(* by one seat or split by all of them, depending on the runout.           *)
(***************************************************************************)
SeatHand(i) == <<Card(i + 1, CLUBS), Card(i + 1, DIAMONDS)>>

PlayerCounts == {0, 1, 2, 3, 4, 6, MaxPlayers}

PlayerLists ==
    {[i \in 1..n |-> SeatHand(i)] : n \in PlayerCounts}
        \cup {<<SeatHand(1), SeatHand(2), SeatHand(1)>>}

RoyalBoard ==
    <<Card(13, SPADES), Card(12, SPADES), Card(11, SPADES), Card(10, SPADES),
      Card(ACE, SPADES), Card(9, SPADES)>>

Boards ==
    {SubSeq(RoyalBoard, 1, k) : k \in 4..6}
        \cup {<<Card(2, CLUBS)>> \o SubSeq(RoyalBoard, 1, 3)}

Seeds == {None} \cup {<<k>> : k \in 1..MaxSeed}

ConvergenceOptions == {<<FALSE, 100>>} \cup {<<TRUE, c>> : c \in 0..MaxInterval}

EquityInit ==
    EvalIdle /\ EquityIdle /\ DrawsIdle /\ CanonIdle /\ DeckIdle /\ GameIdle /\ ReplayIdle

\* EquityRequest(...), with __post_init__
NewRequest ==
    /\ eq_pc = "idle"
    /\ \E players \in PlayerLists, board \in Boards, n \in 0..MaxSims,
          seed \in Seeds, conv \in ConvergenceOptions :
          LET req == EquityRequest(players, board, n, seed, conv[1], conv[2])
          IN  /\ eq_req' = req
              /\ eq_err' = post_init(req)
              /\ eq_pc' = IF post_init(req) = "" THEN "request" ELSE "rejected"
    /\ UNCHANGED <<ev_vars, dr_vars, cn_vars, dk_vars, gs_vars, rp_vars, eq_run, eq_rng, eq_deck, eq_sim, eq_acc, eq_winners,
                   eq_conv, eq_res, eq_prev>>

\* calculate_equity(request), up to the loop
CalculateEquity ==
    /\ \/ eq_pc = "request"
       \/ eq_pc \in {"done", "failed"} /\ eq_run < MaxRuns
    /\ \E state \in SeedStates(eq_req.seed) : eq_rng' = state
    /\ LET known_cards == Range(eq_req.board) \cup Range(Concat(eq_req.players))
       IN  eq_deck' = SelectSeq(FULL_DECK, LAMBDA c : c \notin known_cards)
    /\ eq_acc' = init_players(EquityAccumulator, Len(eq_req.players))
    /\ eq_conv' = <<>>
    /\ eq_sim' = 0
    /\ eq_winners' = <<>>
    /\ eq_run' = eq_run + 1
    /\ eq_prev' = eq_res
    /\ eq_res' = NoResult
    /\ eq_err' = ""
    /\ eq_pc' = "loop"
    /\ UNCHANGED <<ev_vars, dr_vars, cn_vars, dk_vars, gs_vars, rp_vars, eq_req>>

\* a convergence point is due after every trial
ConvergenceDue_every(req, sim) == req.track_convergence

\* "request.track_convergence and (sim + 1) % request.convergence_interval == 0"
ConvergenceDue(req, sim) ==
    req.track_convergence /\ (sim + 1) % req.convergence_interval = 0

\* one iteration of "for sim in range(request.num_simulations)"
Trial ==
    /\ eq_pc = "loop"
    /\ eq_sim < eq_req.num_simulations
    /\ \E sh \in {shuffle(eq_deck, eq_rng)} :
       \E found \in {find_winners(
                        [i \in DOMAIN eq_req.players |->
                            eq_req.players[i]
                                \o eq_req.board
                                \o SubSeq(sh.x, 1, 5 - Len(eq_req.board))])} :
       \E acc \in {IF found.err = "" THEN record(eq_acc, found.winners) ELSE eq_acc} :
       LET current_equities == [i \in DOMAIN eq_req.players |->
                                   FloatDiv(acc.equity_sum[i], acc.total)]
       IN  /\ eq_rng' = sh.state
           /\ eq_deck' = sh.x
           /\ IF found.err /= ""
              THEN /\ eq_pc' = "failed"
                   /\ eq_err' = found.err
                   /\ UNCHANGED <<eq_acc, eq_winners, eq_conv, eq_sim>>
              ELSE /\ eq_winners' = found.winners
                   /\ eq_acc' = acc
                   /\ IF eq_req.track_convergence /\ eq_req.convergence_interval = 0
                      THEN /\ eq_pc' = "failed"
                           /\ eq_err' = "ZeroDivisionError"
                           /\ UNCHANGED <<eq_conv, eq_sim>>
                      ELSE /\ eq_conv' =
                                IF ConvergenceDue(eq_req, eq_sim)
                                THEN Append(eq_conv, [simulation |-> eq_sim + 1,
                                                      equities |-> current_equities])
                                ELSE eq_conv
                           /\ eq_sim' = eq_sim + 1
                           /\ UNCHANGED <<eq_pc, eq_err>>
    /\ UNCHANGED <<ev_vars, dr_vars, cn_vars, dk_vars, gs_vars, rp_vars, eq_req, eq_run, eq_res, eq_prev>>

\* calculate_equity after the loop: final_equities divides by acc.total
Finish ==
    /\ eq_pc = "loop"
    /\ eq_sim = eq_req.num_simulations
    /\ IF eq_acc.total = 0
       THEN /\ eq_pc' = "failed"
            /\ eq_err' = "ZeroDivisionError"
            /\ UNCHANGED eq_res
       ELSE /\ eq_pc' = "done"
            /\ eq_res' = EquityResult(
                   [i \in DOMAIN eq_req.players |->
                       PlayerEquity(eq_acc.wins[i], eq_acc.ties[i], eq_acc.total)],
                   eq_acc.total,
                   IF eq_conv /= <<>> THEN <<eq_conv>> ELSE None)
            /\ UNCHANGED eq_err
    /\ UNCHANGED <<ev_vars, dr_vars, cn_vars, dk_vars, gs_vars, rp_vars, eq_req, eq_run, eq_rng, eq_deck, eq_sim, eq_acc,
                   eq_winners, eq_conv, eq_prev>>

EquityNext == NewRequest \/ CalculateEquity \/ Trial \/ Finish

SpecEquity == EquityInit /\ [][EquityNext]_vars

(***************************************************************************)
(* Claims about the equity engine.                                         *)
(***************************************************************************)
Seats == DOMAIN eq_req.players

\* the exact sum of a list of floats
RECURSIVE BigSum(_)
BigSum(xs) ==
    IF xs = <<>> THEN FloatZero
    ELSE BigAdd(BigSum(SubSeq(xs, 1, Len(xs) - 1)), xs[Len(xs)])

\* x is a multiple of 1/8: no rounded share has gone into it
IsEighths(x) ==
    /\ \A i \in 1..(NumLimbs - 2) : x[i] = 0
    /\ x[NumLimbs - 1] % (2^(LimbBits - 3)) = 0

\* the shares are exact and add up to the number of trials, whether they
\* are added exactly or in floating point as sum(acc.equity_sum) adds them
SharesExact(acc) ==
    /\ \A i \in DOMAIN acc.equity_sum : IsEighths(acc.equity_sum[i])
    /\ BigSum(acc.equity_sum) = FloatOfInt(acc.total)
    /\ FloatSum(acc.equity_sum) = FloatOfInt(acc.total)

\* what one recorded trial with the winners w does to the accumulator
RecordedAs(before, after, w) ==
    LET k == Len(w)
        share == IF k = 1 THEN FloatOfInt(1) ELSE FloatDiv(FloatOfInt(1), k)
    IN  /\ k >= 1
        /\ after.total = before.total + 1
        /\ \A i \in DOMAIN before.wins :
              LET won == (i - 1) \in Range(w)
              IN  /\ after.wins[i] = before.wins[i] + (IF won /\ k = 1 THEN 1 ELSE 0)
                  /\ after.ties[i] = before.ties[i] + (IF won /\ k >= 2 THEN 1 ELSE 0)
                  /\ after.equity_sum[i] =
                         IF won THEN FloatAdd(before.equity_sum[i], share)
                         ELSE before.equity_sum[i]

\* C4 as stated: after every recorded trial the equity_sum of all players
\* add up to the number of trials recorded.
C4_Original ==
    eq_pc \in {"loop", "done"} =>
        FloatSum(eq_acc.equity_sum) = FloatOfInt(eq_acc.total)

\* C4, amended: a recorded trial adds one to total; with a single winner it
\* adds one to that player's wins and 1.0 to that player's equity_sum; with
\* k >= 2 winners it adds one to the ties of each of them, to nobody's wins,
\* and the float nearest 1/k to the equity_sum of each of them; nobody else
\* changes.  The equity_sum add up to the number of trials for as long as
\* every trial has had 1, 2, 4 or 8 winners: such a trial keeps the shares
\* exact and their sum equal to total.
C4_SharesSumToTrials ==
    [][(eq_pc = "loop" /\ eq_acc' /= eq_acc) =>
          /\ RecordedAs(eq_acc, eq_acc', eq_winners')
          /\ (SharesExact(eq_acc) /\ Len(eq_winners') \in {1, 2, 4, 8})
                 => SharesExact(eq_acc')]_vars

\* two trials have been recorded, one split between 2 or 4 players and one
\* won by one of them, and the shares add up
C4_Witness ==
    /\ eq_pc = "loop"
    /\ eq_acc.total = 2
    /\ Len(eq_req.players) \in {2, 4}
    /\ \E i \in Seats : eq_acc.wins[i] = 1 /\ eq_acc.ties[i] = 1
    /\ \A i \in Seats : eq_acc.ties[i] = 1
    /\ SharesExact(eq_acc)

\* C5 as stated: the equity reported for each player of the result is
\* equity_sum[i] / trials, so the reported equities add up to 1.
C5_Original ==
    eq_pc = "done" =>
        /\ \A i \in Seats :
              equity(eq_res.players[i]) = FloatDiv(eq_acc.equity_sum[i], eq_acc.total)
        /\ BigLess(FloatSum([i \in Seats |-> equity(eq_res.players[i])]),
                   FloatAdd(FloatOfInt(1), FloatDiv(FloatOfInt(1), 8)))

\* C6: two calls of calculate_equity on the same request with an integer
\* seed return the same result: the same win_count, tie_count and
\* total_simulations of every player and the same convergence trace.
C6_SeededRunsAgree ==
    (eq_run >= 2 /\ eq_pc = "done" /\ eq_req.seed /= None) => eq_res = eq_prev

\* a second seeded call has returned a result with a convergence trace in
\* which some trial was won outright
C6_Witness ==
    /\ eq_run = 2
    /\ eq_pc = "done"
    /\ eq_req.seed /= None
    /\ eq_res.convergence /= None
    /\ \E i \in Seats : eq_res.players[i].win_count >= 1
    /\ eq_res = eq_prev

\* the requests C7 says are rejected
Malformed(req) ==
    \/ Len(req.players) < 2
    \/ Len(req.players) > 10
    \/ Len(req.board) > 5
    \/ LET all_cards == req.board \o Concat(req.players)
       IN  \E i, j \in DOMAIN all_cards : i /= j /\ all_cards[i] = all_cards[j]

\* C7 as stated: a request with fewer than 2 or more than 10 players, more
\* than 5 board cards or a repeated card is rejected with an input error; no
\* trial is run, no accumulator and no result is produced for it.
C7_Original ==
    (eq_pc /= "idle" /\ Malformed(eq_req)) =>
        /\ eq_pc = "rejected"
        /\ eq_err /= ""
        /\ eq_acc = EquityAccumulator
        /\ eq_res = NoResult

(***************************************************************************)
(* The draw analyzer's specification: one call of analyze_draws.  The hole *)
(* cards are one of a few pairs, the board is any set of up to 5 cards of  *)
(* a pool (and a few of 6), the dead cards are up to MaxDead cards of      *)
(* another pool; a hole pair and a dead card are in the board's pool, so   *)
(* that some calls repeat a card.                                          *)
(***************************************************************************)
DrawCardOrder ==
    <<Card(8, DIAMONDS), Card(5, SPADES), Card(2, HEARTS), Card(9, HEARTS),
      Card(3, HEARTS), Card(4, CLUBS), Card(11, HEARTS), Card(6, DIAMONDS),
      Card(13, HEARTS), Card(12, HEARTS)>>

DrawPool == {DrawCardOrder[i] : i \in 1..DrawPoolSize}

DrawHoles ==
    {<<Card(10, HEARTS), Card(7, CLUBS)>>, <<Card(ACE, HEARTS), Card(5, HEARTS)>>,
     <<Card(13, DIAMONDS), Card(12, SPADES)>>, <<Card(2, HEARTS), Card(7, DIAMONDS)>>}

DrawBoards ==
    {CardList(B) : B \in SubsetsOfSize(DrawPool, 0..5)}
        \cup {CardList(B) : B \in SubsetsOfSize({DrawCardOrder[i] : i \in 1..7}, {6})}

DrawDeadPool == {Card(6, HEARTS), Card(9, DIAMONDS), Card(8, DIAMONDS)}

DrawDead == {CardList(D) : D \in SubsetsOfSize(DrawDeadPool, 0..MaxDead)}

\* calls about the nut flush draw: the hero holds hearts below the Ace, and
\* the Ace and the King of hearts are on the board, dead or neither
NutHoles ==
    {<<Card(12, HEARTS), Card(5, HEARTS)>>, <<Card(13, HEARTS), Card(5, HEARTS)>>}

NutBoards ==
    {<<Card(10, CLUBS), Card(6, HEARTS), Card(2, CLUBS)>>,
     <<Card(ACE, HEARTS), Card(10, CLUBS), Card(6, CLUBS)>>,
     <<Card(ACE, HEARTS), Card(6, HEARTS), Card(2, CLUBS)>>}

NutDead == {CardList(D) : D \in SUBSET {Card(ACE, HEARTS), Card(13, HEARTS)}}

NutInputs == NutHoles \X NutBoards \X NutDead

DrawInputs ==
    (DrawHoles \X DrawBoards \X DrawDead)
        \cup NutInputs
        \cup {<<<<Card(10, HEARTS)>>, <<>>, <<>>>>,
              <<<<Card(10, HEARTS), Card(7, CLUBS), Card(ACE, HEARTS)>>, <<>>, <<>>>>}

DrawsInit ==
    /\ EvalIdle
    /\ EquityIdle
    /\ CanonIdle
    /\ DeckIdle
    /\ GameIdle
    /\ ReplayIdle
    /\ \E in \in DrawInputs :
          /\ dr_hole = in[1]
          /\ dr_board = in[2]
          /\ dr_dead = in[3]
    /\ dr_op = "none"
    /\ dr_err = ""
    /\ dr_res = NoAnalysis

\* analyze_draws(hole_cards, board, dead_cards)
AnalyzeDraws ==
    /\ dr_op = "none"
    /\ \E res \in {analyze_draws(dr_hole, dr_board, dr_dead)} :
          /\ dr_err' = res.err
          /\ dr_res' = res.analysis
    /\ dr_op' = "analyze_draws"
    /\ UNCHANGED <<ev_vars, eq_vars, cn_vars, dk_vars, gs_vars, rp_vars, dr_hole, dr_board, dr_dead>>

DrawsNext == AnalyzeDraws

SpecDraws == DrawsInit /\ [][DrawsNext]_vars

(***************************************************************************)
(* Claims about the draw analyzer.                                         *)
(***************************************************************************)
\* the call returned a DrawAnalysis
DrawsDone == dr_op = "analyze_draws" /\ dr_err = ""

\* the arguments are 2 hole cards, at most 5 board cards and dead cards, all
\* distinct
ValidDrawInput ==
    /\ Len(dr_hole) = 2
    /\ Len(dr_board) <= 5
    /\ \A i, j \in 1..(Len(dr_hole) + Len(dr_board) + Len(dr_dead)) :
          i /= j => (dr_hole \o dr_board \o dr_dead)[i]
                        /= (dr_hole \o dr_board \o dr_dead)[j]

HeldCards == Range(dr_hole) \cup Range(dr_board)

SuitCount(S, suit) == Cardinality({c \in S : c.suit = suit})

\* the ranks R hold five in a row, the Ace counting low for the wheel
HoldsStraight(R) ==
    \E high \in 5..14 :
        \A k \in 0..4 : (IF high - k = 1 THEN ACE ELSE high - k) \in R

DrawOuts ==
    UNION {Range(dr_res.flush_draws[i].outs) : i \in DOMAIN dr_res.flush_draws}
        \cup UNION {Range(dr_res.straight_draws[i].outs) :
                       i \in DOMAIN dr_res.straight_draws}

\* C8: for 2 hole cards, up to 5 board cards and dead cards, all distinct,
\* analyze_draws returns an analysis whose all_outs lists, each once, the
\* cards that are an out of some reported flush or straight draw, whose
\* total_outs is the length of all_outs, and none of whose all_outs is a
\* hole card, a board card or a dead card.
C8_OutsAreUnion ==
    (dr_op = "analyze_draws" /\ ValidDrawInput) =>
        /\ dr_err = ""
        /\ Range(dr_res.all_outs) = DrawOuts
        /\ Cardinality(Range(dr_res.all_outs)) = Len(dr_res.all_outs)
        /\ dr_res.total_outs = Len(dr_res.all_outs)
        /\ Range(dr_res.all_outs)
               \cap (HeldCards \cup Range(dr_dead)) = {}

\* a flush draw and a straight draw share an out, and a dead card of a
\* needed rank is left out
C8_Witness ==
    /\ DrawsDone
    /\ \E i \in DOMAIN dr_res.flush_draws, j \in DOMAIN dr_res.straight_draws :
          /\ Range(dr_res.flush_draws[i].outs)
                 \cap Range(dr_res.straight_draws[j].outs) /= {}
          /\ \E d \in Range(dr_dead) :
                 d.rank \in Range(dr_res.straight_draws[j].needed_ranks)
    /\ dr_res.total_outs = Cardinality(DrawOuts)

\* C9 as stated: every out of a flush draw with cards_held = 4 makes five
\* cards of the draw's suit with the hole cards and the board, and every out
\* of an OPEN_ENDED, GUTSHOT or DOUBLE_GUTSHOT draw makes five ranks in a row
\* with them, the wheel included.
C9_Original ==
    DrawsDone =>
        /\ \A i \in DOMAIN dr_res.flush_draws :
              dr_res.flush_draws[i].cards_held = 4 =>
                  \A out \in Range(dr_res.flush_draws[i].outs) :
                      SuitCount(HeldCards \cup {out}, dr_res.flush_draws[i].suit) >= 5
        /\ \A i \in DOMAIN dr_res.straight_draws :
              dr_res.straight_draws[i].draw_type
                      \in {OPEN_ENDED, GUTSHOT, DOUBLE_GUTSHOT} =>
                  \A out \in Range(dr_res.straight_draws[i].outs) :
                      HoldsStraight({c.rank : c \in HeldCards \cup {out}})

\* the flush draws reported for a suit
FlushDrawsOf(suit) ==
    SelectSeq(dr_res.flush_draws, LAMBDA fd : fd.suit = suit)

\* C10 as stated: when the hole cards and the board make no flush, a suit
\* with c of them has no flush draw if c < 3, one flush draw with
\* cards_held = 4 if c = 4, and if c = 3 a backdoor flush draw when the
\* board has 3 cards and no flush draw otherwise; the outs of a flush draw
\* are the cards of its suit that are not hole, board or dead cards.
C10_Original ==
    (DrawsDone /\ \A suit \in Suits : SuitCount(HeldCards, suit) < 5) =>
        \A suit \in Suits :
            LET c == SuitCount(HeldCards, suit)
                fds == FlushDrawsOf(suit)
            IN  /\ c < 3 => fds = <<>>
                /\ c = 4 => Len(fds) = 1 /\ fds[1].cards_held = 4
                /\ c = 3 => IF Len(dr_board) = 3
                            THEN /\ Len(fds) = 1
                                 /\ fds[1].cards_held = 3
                                 /\ flush_draw_type(fds[1]) = BACKDOOR_FLUSH
                            ELSE fds = <<>>
                /\ \A i \in DOMAIN fds :
                      Range(fds[i].outs) =
                          {card \in AllCards : card.suit = suit}
                              \ (HeldCards \cup Range(dr_dead))

HeldRanks == {c.rank : c \in HeldCards}

\* the ranks of the straight ending at high, the wheel's low Ace being ACE
WindowRanks(high) == {IF r = 1 THEN ACE ELSE r : r \in (high - 4)..high}

\* exactly four ranks of the straight ending at high are held
FourHeld(high) == Cardinality(WindowRanks(high) \cap HeldRanks) = 4

HeldPattern(high) == WindowRanks(high) \cap HeldRanks

\* the ranks that complete the held pattern P in some 5-rank window
Completing(P) ==
    UNION {WindowRanks(h) \ HeldRanks :
              h \in {h \in 5..14 : FourHeld(h) /\ HeldPattern(h) = P}}

\* the cards of the ranks N that are not hole, board or dead cards
LiveOfRanks(N) ==
    {c \in AllCards : c.rank \in N} \ (HeldCards \cup Range(dr_dead))

\* C11: when the hole cards and the board hold no straight, every pattern of
\* four held ranks in a 5-rank window (wheel window to Ace-high) is reported
\* once by the number of ranks completing it: two ranks give one OPEN_ENDED
\* draw, one rank gives one GUTSHOT draw, needing exactly those ranks, with
\* every live card of them as outs, each once (4 a rank when none is dead);
\* and the window's missing rank is a needed rank of a reported draw.
C11_PatternsClassified ==
    (DrawsDone /\ ~HoldsStraight(HeldRanks)) =>
        \A high \in 5..14 :
            FourHeld(high) =>
                LET need == Completing(HeldPattern(high))
                    kind == IF Cardinality(need) = 2 THEN OPEN_ENDED ELSE GUTSHOT
                    sd == dr_res.straight_draws
                    matching == {i \in DOMAIN sd :
                                    /\ sd[i].draw_type = kind
                                    /\ Range(sd[i].needed_ranks) = need}
                IN  /\ Cardinality(need) \in {1, 2}
                    /\ Cardinality(matching) = 1
                    /\ \A i \in matching :
                          /\ Range(sd[i].outs) = LiveOfRanks(need)
                          /\ Len(sd[i].outs) = Cardinality(LiveOfRanks(need))
                          /\ (\A d \in Range(dr_dead) : d.rank \notin need) =>
                                 Len(sd[i].outs) = 4 * Cardinality(need)
                    /\ \E i \in DOMAIN sd :
                          (WindowRanks(high) \ HeldRanks)
                              \subseteq Range(sd[i].needed_ranks)

\* no straight is held; an OPEN_ENDED draw with 8 outs and a GUTSHOT draw
\* with 4 outs are reported, for two different held patterns
C11_Witness ==
    /\ DrawsDone
    /\ ~HoldsStraight(HeldRanks)
    /\ \E h1, h2 \in 5..14 :
          /\ FourHeld(h1) /\ Cardinality(Completing(HeldPattern(h1))) = 2
          /\ FourHeld(h2) /\ Cardinality(Completing(HeldPattern(h2))) = 1
    /\ \E i, j \in DOMAIN dr_res.straight_draws :
          /\ dr_res.straight_draws[i].draw_type = OPEN_ENDED
          /\ Len(dr_res.straight_draws[i].outs) = 8
          /\ dr_res.straight_draws[j].draw_type = GUTSHOT
          /\ Len(dr_res.straight_draws[j].outs) = 4

\* the six ranks lo..lo+5 have exactly four held, the lowest and the highest
\* among them
InteriorGaps(lo) ==
    /\ Cardinality(lo..(lo + 5) \cap HeldRanks) = 4
    /\ lo \in HeldRanks
    /\ lo + 5 \in HeldRanks

\* C12 as stated: with fewer than 5 board cards and no straight held, every
\* run of six ranks (2-7 to 9-A) with four ranks held and both missing
\* ranks inside has a DOUBLE_GUTSHOT draw needing exactly the two missing
\* ranks, and no DOUBLE_GUTSHOT draw needs a rank of the hole cards or the
\* board; with 5 board cards no DOUBLE_GUTSHOT draw is reported.
C12_Original ==
    (DrawsDone /\ ~HoldsStraight(HeldRanks)) =>
        LET sd == dr_res.straight_draws
            dg == {i \in DOMAIN sd : sd[i].draw_type = DOUBLE_GUTSHOT}
        IN  /\ Len(dr_board) < 5 =>
                  \A lo \in 2..9 :
                      InteriorGaps(lo) =>
                          \E i \in dg :
                              sd[i].needed_ranks
                                  = Reverse(SetDesc(lo..(lo + 5) \ HeldRanks))
            /\ \A i \in dg : Range(sd[i].needed_ranks) \cap HeldRanks = {}
            /\ Len(dr_board) = 5 => dg = {}

Outranked(suit) ==
    \E c \in AllCards \ (HeldCards \cup Range(dr_dead)) :
        /\ c.suit = suit
        /\ \A h \in Range(dr_hole) : h.suit = suit => h.rank < c.rank

\* C14 as stated: a reported flush draw in a suit the hero holds has is_nut
\* false when a live card of the suit outranks the hero's highest hole card
\* of the suit, and true when none does.
C14_Original ==
    DrawsDone =>
        \A i \in DOMAIN dr_res.flush_draws :
            (\E h \in Range(dr_hole) : h.suit = dr_res.flush_draws[i].suit) =>
                (dr_res.flush_draws[i].is_nut
                     <=> ~Outranked(dr_res.flush_draws[i].suit))

(***************************************************************************)
(* The specification of canonize.py: one call of canonize_hole_cards,      *)
(* get_all_combos or get_combos_excluding on arguments chosen at the       *)
(* start, or up to two calls of get_all_canonical_hands.  The hole cards   *)
(* are any two different cards in either order (and a few malformed        *)
(* lists), the canonical hand is any CanonicalHand that can be built, the  *)
(* dead cards are up to MaxCanonDead cards, some of the hand's ranks.      *)
(***************************************************************************)
\* the CanonicalHand values whose __post_init__ raises nothing
CanonicalHands ==
    {h \in {CanonicalHand(hi, lo, su) : hi \in Ranks, lo \in Ranks, su \in BOOLEAN} :
        CanonicalHand_post_init(h) = ""}

HoleInputs ==
    ({<<c1, c2>> : c1 \in AllCards, c2 \in AllCards} \ {<<c, c>> : c \in AllCards})
        \cup {<<Card(ACE, SPADES)>>,
              <<Card(ACE, SPADES), Card(13, SPADES), Card(12, SPADES)>>}

\* a card of neither rank of h
Unrelated(h) ==
    Card(CHOOSE r \in Ranks : r \notin {h.high_rank, h.low_rank}
                                  /\ \A q \in 2..(r - 1) : q \in {h.high_rank, h.low_rank},
         HEARTS)

CanonDeadPool(h) ==
    {Card(h.high_rank, CLUBS), Card(h.high_rank, DIAMONDS), Card(h.low_rank, CLUBS),
     Card(h.low_rank, SPADES), Unrelated(h)}

CanonDead(h) == {CardList(D) : D \in SubsetsOfSize(CanonDeadPool(h), 0..MaxCanonDead)}

\* <<cards, canonical, dead_cards>>
CanonInputs ==
    {<<cards, NoHand, <<>>>> : cards \in HoleInputs \cup {<<>>}}
        \cup UNION {{<<<<>>, h, dead>> : dead \in CanonDead(h)} : h \in CanonicalHands}

CanonInit ==
    /\ EvalIdle
    /\ EquityIdle
    /\ DrawsIdle
    /\ DeckIdle
    /\ GameIdle
    /\ ReplayIdle
    /\ \E in \in CanonInputs :
          /\ cn_cards = in[1]
          /\ cn_hand = in[2]
          /\ cn_dead = in[3]
    /\ cn_op = "none"
    /\ cn_err = ""
    /\ cn_canon = NoHand
    /\ cn_combos = <<>>
    /\ cn_hands = <<>>
    /\ cn_prev = <<>>

\* canonize_hole_cards(cards)
CanonizeHoleCards ==
    /\ cn_op = "none"
    /\ cn_cards /= <<>>
    /\ \E res \in {canonize_hole_cards(cn_cards)} :
          /\ cn_err' = res.err
          /\ cn_canon' = res.hand
    /\ cn_op' = "canonize_hole_cards"
    /\ UNCHANGED <<ev_vars, eq_vars, dr_vars, dk_vars, gs_vars, rp_vars, cn_cards, cn_hand, cn_dead,
                   cn_combos, cn_hands, cn_prev>>

\* get_all_combos(canonical)
GetAllCombos ==
    /\ cn_op = "none"
    /\ cn_hand /= NoHand
    /\ cn_combos' = get_all_combos(cn_hand)
    /\ cn_op' = "get_all_combos"
    /\ UNCHANGED <<ev_vars, eq_vars, dr_vars, dk_vars, gs_vars, rp_vars, cn_cards, cn_hand, cn_dead,
                   cn_err, cn_canon, cn_hands, cn_prev>>

\* get_combos_excluding(canonical, dead_cards)
GetCombosExcluding ==
    /\ cn_op = "none"
    /\ cn_hand /= NoHand
    /\ cn_combos' = get_combos_excluding(cn_hand, cn_dead)
    /\ cn_op' = "get_combos_excluding"
    /\ UNCHANGED <<ev_vars, eq_vars, dr_vars, dk_vars, gs_vars, rp_vars, cn_cards, cn_hand, cn_dead,
                   cn_err, cn_canon, cn_hands, cn_prev>>

\* get_all_canonical_hands(), a first and a second time
GetAllCanonicalHands ==
    /\ cn_op \in {"none", "get_all_canonical_hands"}
    /\ cn_cards = <<>>
    /\ cn_hand = NoHand
    /\ cn_prev = <<>>
    /\ cn_hands' = get_all_canonical_hands
    /\ cn_prev' = cn_hands
    /\ cn_op' = "get_all_canonical_hands"
    /\ UNCHANGED <<ev_vars, eq_vars, dr_vars, dk_vars, gs_vars, rp_vars, cn_cards, cn_hand, cn_dead,
                   cn_err, cn_canon, cn_combos>>

CanonNext ==
    CanonizeHoleCards \/ GetAllCombos \/ GetCombosExcluding \/ GetAllCanonicalHands

SpecCanon == CanonInit /\ [][CanonNext]_vars

(***************************************************************************)
(* Claims about canonize.py (checked under SpecCanon).                     *)
(***************************************************************************)
\* the combos of a list as unordered pairs
Unordered(combos) == {{combos[k][1], combos[k][2]} : k \in DOMAIN combos}

TwoCardSets == {{c1, c2} : c1 \in AllCards, c2 \in AllCards} \ {{c} : c \in AllCards}

\* the unordered combos of the hands of H, and their number counted hand by hand
CombosOf(H) == UNION {Unordered(get_all_combos(h)) : h \in H}

CountedCombos(H) ==
    Cardinality({<<h, k>> \in H \X (1..12) : k <= Len(get_all_combos(h))})

\* C16: get_all_combos(h) returns num_combos(h) pairs of cards (6 for a pair,
\* 4 for a suited hand, 12 for an offsuit hand), different as unordered
\* pairs, each of which canonizes back to h; every two different cards are a
\* combo of the hand they canonize to; over the hands get_all_canonical_hands
\* returns, the combos count 78 for pairs, 312 for suited and 936 for offsuit
\* hands, and the 1326 of them are the 1326 two-card subsets of the deck.
C16_CombosPartition ==
    /\ cn_op = "get_all_combos" =>
          /\ Len(cn_combos) = num_combos(cn_hand)
          /\ Len(cn_combos) = IF cn_hand.high_rank = cn_hand.low_rank THEN 6
                              ELSE IF cn_hand.suited THEN 4 ELSE 12
          /\ Cardinality(Unordered(cn_combos)) = Len(cn_combos)
          /\ \A k \in DOMAIN cn_combos :
                /\ cn_combos[k][1] /= cn_combos[k][2]
                /\ canonize_hole_cards(cn_combos[k]) = [err |-> "", hand |-> cn_hand]
                /\ canonize_hole_cards(<<cn_combos[k][2], cn_combos[k][1]>>)
                       = [err |-> "", hand |-> cn_hand]
    /\ (cn_op = "canonize_hole_cards" /\ cn_err = "") =>
          {cn_cards[1], cn_cards[2]} \in Unordered(get_all_combos(cn_canon))
    /\ cn_op = "get_all_canonical_hands" =>
          LET H == Range(cn_hands)
              pairs == {h \in H : h.high_rank = h.low_rank}
              suited == {h \in H : h.suited}
              offsuit == {h \in H : h.high_rank /= h.low_rank /\ ~h.suited}
          IN  /\ CountedCombos(pairs) = 78
              /\ CountedCombos(suited) = 312
              /\ CountedCombos(offsuit) = 936
              /\ Cardinality(CombosOf(pairs)) = 78
              /\ Cardinality(CombosOf(suited)) = 312
              /\ Cardinality(CombosOf(offsuit)) = 936
              /\ CombosOf(H) = TwoCardSets
              /\ Cardinality(TwoCardSets) = 1326

\* get_all_combos has returned the 12 combos of an offsuit hand
C16_Witness ==
    /\ cn_op = "get_all_combos"
    /\ cn_hand.high_rank > cn_hand.low_rank
    /\ ~cn_hand.suited
    /\ Len(cn_combos) = 12

\* hand a comes before hand b: higher high rank, or the same and higher low
Before(a, b) ==
    \/ a.high_rank > b.high_rank
    \/ a.high_rank = b.high_rank /\ a.low_rank > b.low_rank

\* C17: get_all_canonical_hands returns 169 different hands: the 13 pairs
\* from AA down to 22, then the 78 suited hands by high rank descending and
\* low rank descending within a high rank (AKs first, 32s last), then the 78
\* offsuit hands in the same order; a second call returns the same list.
C17_CanonicalHandsOrder ==
    cn_op = "get_all_canonical_hands" =>
        /\ Len(cn_hands) = 169
        /\ Cardinality(Range(cn_hands)) = 169
        /\ \A k \in 1..13 : cn_hands[k] = CanonicalHand(15 - k, 15 - k, FALSE)
        /\ \A k \in 14..91 :
              /\ cn_hands[k].suited
              /\ cn_hands[k].high_rank > cn_hands[k].low_rank
              /\ cn_hands[k + 78] = [cn_hands[k] EXCEPT !.suited = FALSE]
              /\ k < 91 => Before(cn_hands[k], cn_hands[k + 1])
        /\ cn_hands[14] = CanonicalHand(14, 13, TRUE)
        /\ cn_hands[91] = CanonicalHand(3, 2, TRUE)
        /\ cn_prev /= <<>> => cn_prev = cn_hands

\* get_all_canonical_hands has been called twice
C17_Witness ==
    /\ cn_op = "get_all_canonical_hands"
    /\ cn_prev /= <<>>
    /\ cn_hands[15] = CanonicalHand(14, 12, TRUE)

\* the bijections of the four suits
SuitPermutations ==
    {f \in [Suits -> Suits] : \A a, b \in Suits : f[a] = f[b] => a = b}

\* C18: for two different cards canonize_hole_cards returns a CanonicalHand
\* with high_rank >= low_rank, not suited when the ranks are equal; the two
\* cards in the other order, and the two cards with their suits permuted,
\* give the same hand; and any two different cards give the same hand exactly
\* when they have the same two ranks and are suited or offsuit alike.
C18_CanonizeInvariant ==
    (cn_op = "canonize_hole_cards" /\ Len(cn_cards) = 2
        /\ cn_cards[1] /= cn_cards[2]) =>
        LET c1 == cn_cards[1]
            c2 == cn_cards[2]
            same == [err |-> "", hand |-> cn_canon]
        IN  /\ cn_err = ""
            /\ cn_canon.high_rank >= cn_canon.low_rank
            /\ cn_canon.high_rank = cn_canon.low_rank => ~cn_canon.suited
            /\ canonize_hole_cards(<<c2, c1>>) = same
            /\ \A f \in SuitPermutations :
                  canonize_hole_cards(<<Card(c1.rank, f[c1.suit]),
                                        Card(c2.rank, f[c2.suit])>>) = same
            /\ \A d1, d2 \in AllCards :
                  d1 /= d2 =>
                      ((canonize_hole_cards(<<d1, d2>>) = same)
                          <=> /\ {d1.rank, d2.rank} = {c1.rank, c2.rank}
                              /\ (d1.suit = d2.suit) = (c1.suit = c2.suit))

\* two suited cards given lower rank first
C18_Witness ==
    /\ cn_op = "canonize_hole_cards"
    /\ cn_err = ""
    /\ Len(cn_cards) = 2
    /\ cn_cards[1].rank < cn_cards[2].rank
    /\ cn_cards[1].suit = cn_cards[2].suit
    /\ cn_canon = CanonicalHand(cn_cards[2].rank, cn_cards[1].rank, TRUE)

\* the position of combo c in get_all_combos(h)
ComboIndex(h, c) ==
    CHOOSE k \in DOMAIN get_all_combos(h) : get_all_combos(h)[k] = c

\* C19: get_combos_excluding(h, D) returns combos of get_all_combos(h), each
\* once and in the order of get_all_combos(h); none of them has a card in D,
\* and every combo of get_all_combos(h) without a card in D is returned; with
\* D empty the result is get_all_combos(h).
C19_ExcludingIsSublist ==
    cn_op = "get_combos_excluding" =>
        LET all == get_all_combos(cn_hand)
            D == Range(cn_dead)
        IN  /\ Range(cn_combos) \subseteq Range(all)
            /\ \A i, j \in DOMAIN cn_combos :
                  i < j => ComboIndex(cn_hand, cn_combos[i])
                               < ComboIndex(cn_hand, cn_combos[j])
            /\ \A k \in DOMAIN cn_combos :
                  cn_combos[k][1] \notin D /\ cn_combos[k][2] \notin D
            /\ \A k \in DOMAIN all :
                  (all[k][1] \notin D /\ all[k][2] \notin D) =>
                      all[k] \in Range(cn_combos)
            /\ D = {} => cn_combos = all

\* a dead card of the low rank and a dead card of neither rank: some combos
\* are left out and some are returned
C19_Witness ==
    /\ cn_op = "get_combos_excluding"
    /\ cn_hand.high_rank /= cn_hand.low_rank
    /\ \E d \in Range(cn_dead) : d.rank = cn_hand.low_rank
    /\ \E d \in Range(cn_dead) : d.rank \notin {cn_hand.high_rank, cn_hand.low_rank}
    /\ cn_combos /= <<>>
    /\ Len(cn_combos) < Len(get_all_combos(cn_hand))

(***************************************************************************)
(* The specification of Deck: a deck is constructed with a seed, and up to *)
(* MaxDeckCalls of its methods are called on it, in any order.             *)
(***************************************************************************)
DeckSeeds == {<<k>> : k \in 1..MaxSeed}

DealCounts == {-1, 2, 53}

PeekCounts == {1}

RemoveLists ==
    {<<Card(ACE, SPADES)>>, <<Card(13, SPADES)>>,
     <<Card(ACE, SPADES), Card(13, SPADES)>>, <<Card(ACE, SPADES), Card(ACE, SPADES)>>}

TheDeck == DeckOf(dk_cards, dk_removed, dk_rng)

\* deck = Deck(seed)
DeckInit ==
    /\ EvalIdle
    /\ EquityIdle
    /\ DrawsIdle
    /\ CanonIdle
    /\ GameIdle
    /\ ReplayIdle
    /\ \E seed \in DeckSeeds : \E state \in SeedStates(seed) :
          \E deck \in {Deck_init(state)} :
              /\ dk_cards = deck.cards
              /\ dk_removed = deck.removed
              /\ dk_rng = deck.rng
    /\ dk_op = "init"
    /\ dk_err = ""
    /\ dk_out = <<>>
    /\ dk_calls = 0
    /\ dk_gone = {}
    /\ dk_dealt = {}
    /\ dk_n = 0
    /\ dk_req = <<>>
    /\ dk_round = {}

\* what every call does besides its own work
Called(op) ==
    /\ dk_op /= "none"
    /\ dk_calls < MaxDeckCalls
    /\ dk_calls' = dk_calls + 1
    /\ dk_op' = op
    /\ dk_gone' = IF op = "remove"
                  THEN dk_gone \cup (Range(dk_cards) \ Range(dk_cards'))
                  ELSE dk_gone
    /\ dk_dealt' = IF op \in {"deal", "deal_one"}
                   THEN dk_dealt \cup Range(dk_out')
                   ELSE dk_dealt
    /\ dk_round' = IF op \in {"deal", "deal_one"}
                   THEN dk_round \cup Range(dk_out')
                   ELSE IF op = "reset" THEN {} ELSE dk_round
    /\ UNCHANGED <<ev_vars, eq_vars, dr_vars, cn_vars, gs_vars, rp_vars>>

\* deck.reset()
Reset ==
    /\ \E deck \in {Deck_reset(TheDeck)} :
          /\ dk_cards' = deck.cards
          /\ dk_rng' = deck.rng
    /\ dk_err' = ""
    /\ dk_out' = <<>>
    /\ dk_n' = 0
    /\ dk_req' = <<>>
    /\ UNCHANGED dk_removed
    /\ Called("reset")

\* deck.shuffle()
Shuffle ==
    /\ \E deck \in {Deck_shuffle(TheDeck)} :
          /\ dk_cards' = deck.cards
          /\ dk_rng' = deck.rng
    /\ dk_err' = ""
    /\ dk_out' = <<>>
    /\ dk_n' = 0
    /\ dk_req' = <<>>
    /\ UNCHANGED dk_removed
    /\ Called("shuffle")

\* deck.deal(n)
Deal ==
    /\ \E n \in DealCounts : \E res \in {Deck_deal(TheDeck, n)} :
          /\ dk_cards' = res.deck.cards
          /\ dk_err' = res.err
          /\ dk_out' = res.out
          /\ dk_n' = n
    /\ dk_req' = <<>>
    /\ UNCHANGED <<dk_removed, dk_rng>>
    /\ Called("deal")

\* deck.deal_one(): self.deal(1)[0]
DealOne ==
    /\ \E res \in {Deck_deal(TheDeck, 1)} :
          /\ dk_cards' = res.deck.cards
          /\ dk_err' = res.err
          /\ dk_out' = res.out
    /\ dk_n' = 1
    /\ dk_req' = <<>>
    /\ UNCHANGED <<dk_removed, dk_rng>>
    /\ Called("deal_one")

\* deck.peek(n)
Peek ==
    /\ \E n \in PeekCounts : \E res \in {Deck_peek(TheDeck, n)} :
          /\ dk_err' = res.err
          /\ dk_out' = res.out
          /\ dk_n' = n
    /\ dk_req' = <<>>
    /\ UNCHANGED <<dk_cards, dk_removed, dk_rng>>
    /\ Called("peek")

\* deck.remove(cards)
Remove ==
    /\ \E cards \in RemoveLists : \E res \in {Deck_remove(TheDeck, cards)} :
          /\ dk_cards' = res.deck.cards
          /\ dk_removed' = res.deck.removed
          /\ dk_err' = res.err
          /\ dk_req' = cards
    /\ dk_out' = <<>>
    /\ dk_n' = 0
    /\ UNCHANGED dk_rng
    /\ Called("remove")

DeckNext == Reset \/ Shuffle \/ Deal \/ DealOne \/ Peek \/ Remove

SpecDeck == DeckInit /\ [][DeckNext]_vars

(***************************************************************************)
(* Claims about Deck (checked under SpecDeck).                             *)
(***************************************************************************)
\* C20: right after a reset the deck holds, each once, the 52 cards except
\* those a remove call has taken out at any time before: dealt cards are
\* back; and a card taken out by remove is never in the deck again.
C20_ResetRestoresAllButRemoved ==
    /\ dk_op = "reset" =>
          /\ Range(dk_cards) = AllCards \ dk_gone
          /\ Len(dk_cards) = 52 - Cardinality(dk_gone)
    /\ dk_op /= "none" => Range(dk_cards) \cap dk_gone = {}

\* a card was removed, cards were dealt, and the deck was reset
C20_Witness ==
    /\ dk_op = "reset"
    /\ dk_gone /= {}
    /\ dk_dealt /= {}
    /\ dk_dealt \subseteq Range(dk_cards)

\* the cards left in a deck are pairwise distinct, and none of them was
\* removed or was dealt since the last reset
DeckDistinct ==
    dk_op /= "none" =>
        /\ Cardinality(Range(dk_cards)) = Len(dk_cards)
        /\ Range(dk_cards) \cap dk_removed = {}
        /\ Range(dk_cards) \cap dk_round = {}
        /\ dk_round \cap dk_gone = {}

\* what one call of deal, deal_one, peek or remove does
DealIsPeek ==
    /\ dk_op' \in {"deal", "deal_one"} =>
         IF dk_n' <= Len(dk_cards)
         THEN /\ dk_err' = ""
              /\ dk_out' = Deck_peek(TheDeck, dk_n').out
              /\ dk_cards = dk_out' \o dk_cards'
              /\ Range(dk_out') \cap (dk_round \cup dk_gone) = {}
         ELSE dk_err' /= "" /\ dk_cards' = dk_cards
    /\ dk_op' = "peek" =>
         (/\ dk_cards' = dk_cards
          /\ (dk_err' /= "") = (dk_n' > Len(dk_cards)))
    /\ dk_op' = "remove" =>
         ((dk_err' /= "") =
             (\/ \E i \in 1..Len(dk_req') : dk_req'[i] \notin Range(dk_cards)
              \/ Cardinality(Range(dk_req')) < Len(dk_req')))
    /\ dk_op' \in {"deal", "deal_one", "peek"} => dk_removed' = dk_removed

\* C29: the remaining cards of a deck are pairwise distinct and none is in
\* the removed set; deal(n) with n <= remaining returns what peek(n) shows and
\* takes exactly those cards off the top; deal and peek with n > remaining
\* raise and change nothing, remove raises when a card it is given is absent;
\* no card is dealt twice between two resets and no removed card is dealt.
C29_DealIsPeekAndDistinct == []DeckDistinct /\ [][DealIsPeek]_vars

\* a second successful deal on the same deck after a card was removed
C29_Witness ==
    /\ dk_op = "deal"
    /\ dk_err = ""
    /\ dk_gone /= {}
    /\ Cardinality(dk_round) > Len(dk_out)
    /\ dk_out /= <<>>

(***************************************************************************)
(* Further claims about the equity engine (checked under SpecEquity).      *)
(***************************************************************************)
\* a call is running or has returned with convergence tracking on and an
\* interval of at least one
Tracking ==
    /\ eq_pc \in {"loop", "done"}
    /\ eq_req.track_convergence
    /\ eq_req.convergence_interval >= 1

\* the trace holds one point per multiple of the interval reached so far
TraceShape ==
    Tracking =>
        /\ Len(eq_conv) = eq_sim \div eq_req.convergence_interval
        /\ \A j \in DOMAIN eq_conv :
              eq_conv[j].simulation = j * eq_req.convergence_interval
        /\ eq_pc = "done" =>
              /\ eq_sim = eq_req.num_simulations
              /\ eq_res.convergence = IF eq_conv = <<>> THEN None ELSE <<eq_conv>>

\* 1 - 2^-(3 * LimbBits) < x < 1 + 2^-(3 * LimbBits)
NearOne(x) ==
    /\ BigLess([i \in Limbs |-> IF i \in (NumLimbs - 3)..(NumLimbs - 1)
                                 THEN LimbBase - 1 ELSE 0], x)
    /\ BigLess(x, BigAdd(FloatOfInt(1), Pow2Big(FracBits - 3 * LimbBits)))

\* a trial appends a point exactly when its 1-based index is a multiple of
\* the interval, and the point holds equity_sum[i] / index
TraceStep ==
    (Tracking /\ eq_pc = "loop") =>
        IF eq_sim' = eq_sim + 1 /\ eq_sim' % eq_req.convergence_interval = 0
        THEN /\ eq_acc'.total = eq_sim'
             /\ eq_conv' = Append(eq_conv,
                    [simulation |-> eq_sim',
                     equities |-> [i \in Seats |->
                                      FloatDiv(eq_acc'.equity_sum[i], eq_sim')]])
             /\ NearOne(FloatSum(eq_conv'[Len(eq_conv')].equities))
        ELSE eq_conv' = eq_conv

\* C21 as stated: ... the equities of each convergence point sum to 1.
C21_Original ==
    Tracking => \A j \in DOMAIN eq_conv :
                   FloatSum(eq_conv[j].equities) = FloatOfInt(1)

\* C21, amended: with tracking on and an interval c >= 1, a point is
\* appended after each trial whose 1-based index is a multiple of c and at no
\* other time; the trace has floor(n/c) points after n trials, the j-th with
\* simulation = j*c and equities equity_sum[i] / (j*c) as accumulated over
\* the first j*c trials; the equities of a point sum to 1 up to rounding; the
\* result carries the trace, or None when it is empty.
C21_ConvergenceTrace == []TraceShape /\ [][TraceStep]_vars

\* a call with interval 2 has returned after two trials: the first trial
\* emitted nothing, the second emitted the only point
C21_Witness ==
    /\ Tracking
    /\ eq_pc = "done"
    /\ eq_req.convergence_interval = 2
    /\ eq_sim = 2
    /\ Len(eq_conv) = 1
    /\ eq_conv[1].simulation = 2

\* C28 as stated: calculate_equity returns a result for every validated
\* request, also with num_simulations = 0: total_simulations is 0 and every
\* player's counts, rates and equity are 0, and no error is raised.
C28_Original ==
    (eq_pc \in {"done", "failed"} /\ eq_req.num_simulations = 0) =>
        /\ eq_pc = "done"
        /\ eq_err = ""
        /\ eq_res.total_simulations = 0
        /\ \A i \in Seats :
              /\ eq_res.players[i].win_count = 0
              /\ eq_res.players[i].tie_count = 0
              /\ win_rate(eq_res.players[i]) = FloatZero
              /\ tie_rate(eq_res.players[i]) = FloatZero
              /\ equity(eq_res.players[i]) = FloatZero

(***************************************************************************)
(* Further claims about the draw analyzer (checked under SpecDraws).       *)
(***************************************************************************)
\* the top rank of the highest straight among the ranks R, 0 when none
StraightTop(R) ==
    LET tops == {h \in 5..14 : WindowRanks(h) \subseteq R}
    IN  IF tops = {} THEN 0 ELSE CHOOSE h \in tops : \A g \in tops : g <= h

\* the top rank of the highest straight that the held ranks make with one
\* card of one of the ranks N
CompletedTop(N) ==
    LET tops == {StraightTop(HeldRanks \cup {n}) : n \in N}
    IN  CHOOSE h \in tops : \A g \in tops : g <= h

\* C24 as stated: every reported OPEN_ENDED or GUTSHOT draw has for
\* high_card the top rank of the highest straight that hole and board would
\* hold with one more card of one of its needed ranks, and is_nut says
\* whether that straight is Ace-high.
C24_Original ==
    DrawsDone =>
        \A i \in DOMAIN dr_res.straight_draws :
            LET d == dr_res.straight_draws[i]
            IN  d.draw_type \in {OPEN_ENDED, GUTSHOT} =>
                    /\ d.high_card = CompletedTop(Range(d.needed_ranks))
                    /\ d.is_nut = (CompletedTop(Range(d.needed_ranks)) = ACE)

\* C25 as stated: with at least 5 hole and board cards, has_straight is
\* true and no straight draw is reported whenever five held ranks form a
\* straight, and has_flush is true and no flush draw is reported whenever some
\* suit has five or more held cards, also when both are held at once.
C25_Original ==
    (DrawsDone /\ Len(dr_hole) + Len(dr_board) >= 5) =>
        /\ HoldsStraight(HeldRanks) =>
              dr_res.has_straight /\ dr_res.straight_draws = <<>>
        /\ (\E suit \in Suits : SuitCount(HeldCards, suit) >= 5) =>
              dr_res.has_flush /\ dr_res.flush_draws = <<>>

(***************************************************************************)
(* The specification of GameState: a game of 2 or 3 players is constructed *)
(* with a seed, and up to MaxGameCalls of its methods are called on it, in *)
(* any order.  The cards passed to set_hole_cards and set_board are spades *)
(* chosen so that a later call repeats a card of an earlier one.           *)
(***************************************************************************)
GamePlayers == {2, 3}

GameSeeds == {<<1>>}

HoleCalls ==
    {<<0, <<Card(ACE, SPADES), Card(13, SPADES)>>>>,
     <<1, <<Card(12, SPADES), Card(13, SPADES)>>>>,
     <<5, <<Card(ACE, SPADES), Card(13, SPADES)>>>>,
     <<0, <<Card(ACE, SPADES)>>>>}

BoardCalls ==
    {<<Card(11, SPADES), Card(10, SPADES), Card(9, SPADES)>>,
     <<Card(11, SPADES), Card(10, SPADES), Card(9, SPADES), Card(8, SPADES)>>,
     <<Card(7, SPADES), Card(6, SPADES), Card(5, SPADES), Card(4, SPADES),
       Card(13, SPADES)>>,
     <<Card(11, SPADES), Card(10, SPADES)>>}

EquitySims == {0, 1}

\* game = GameState(num_players, seed=seed)
GameInit ==
    /\ EvalIdle
    /\ EquityIdle
    /\ DrawsIdle
    /\ CanonIdle
    /\ DeckIdle
    /\ ReplayIdle
    /\ \E num_players \in GamePlayers, seed \in GameSeeds :
          \E state \in SeedStates(seed) :
              gs = GameState_init(num_players, seed, state)
    /\ gs_op = "init"
    /\ gs_err = ""
    /\ gs_calls = 0
    /\ gs_failed = FALSE

\* a call of the method op that returned or raised as res says
GameCall(op, res) ==
    /\ gs' = res.g
    /\ gs_err' = res.err
    /\ gs_op' = op
    /\ gs_calls' = gs_calls + 1
    /\ gs_failed' = (gs_failed \/ res.err /= "")
    /\ UNCHANGED <<ev_vars, eq_vars, dr_vars, cn_vars, dk_vars, rp_vars>>

CanCall == gs_op /= "none" /\ gs_calls < MaxGameCalls

DealHoleCards ==
    CanCall /\ \E res \in {deal_hole_cards(gs)} : GameCall("deal_hole_cards", res)

DealFlop == CanCall /\ \E res \in {deal_flop(gs)} : GameCall("deal_flop", res)

DealTurn == CanCall /\ \E res \in {deal_turn(gs)} : GameCall("deal_turn", res)

DealRiver == CanCall /\ \E res \in {deal_river(gs)} : GameCall("deal_river", res)

Resolve == CanCall /\ \E res \in {resolve(gs)} : GameCall("resolve", res)

RunToShowdown ==
    CanCall /\ \E res \in {run_to_showdown(gs)} : GameCall("run_to_showdown", res)

GameCalculateEquity ==
    /\ CanCall
    /\ \E n \in EquitySims : \E state \in SeedStates(None) :
          \E res \in {game_calculate_equity(gs, n, state)} :
              GameCall("calculate_equity", res)

SetHoleCards ==
    /\ CanCall
    /\ \E call \in HoleCalls : \E res \in {set_hole_cards(gs, call[1], call[2])} :
          GameCall("set_hole_cards", res)

SetBoard ==
    /\ CanCall
    /\ \E cards \in BoardCalls : \E res \in {set_board(gs, cards)} :
          GameCall("set_board", res)

GameNext ==
    \/ DealHoleCards
    \/ DealFlop
    \/ DealTurn
    \/ DealRiver
    \/ Resolve
    \/ RunToShowdown
    \/ GameCalculateEquity
    \/ SetHoleCards
    \/ SetBoard

SpecGame == GameInit /\ [][GameNext]_vars

(***************************************************************************)
(* Claims about GameState (checked under SpecGame).                        *)
(***************************************************************************)
\* the street a dealing method needs, the street it moves to and the board
\* size the claim gives for it
StreetOrder ==
    {<<"deal_hole_cards", PRE_DEAL, PRE_FLOP, 0>>, <<"deal_flop", PRE_FLOP, FLOP, 3>>,
     <<"deal_turn", FLOP, TURN, 4>>, <<"deal_river", TURN, RIVER, 5>>,
     <<"resolve", RIVER, COMPLETE, 5>>}

\* C22 as stated: deal_hole_cards succeeds only in PRE_DEAL (to PRE_FLOP),
\* deal_flop only in PRE_FLOP (to FLOP, 3 board cards), deal_turn only in FLOP
\* (to TURN, 4 cards), deal_river only in TURN (to RIVER, 5 cards), resolve
\* only in RIVER (to COMPLETE); in any other street each raises RuntimeError
\* and leaves the game unchanged.
C22_Original ==
    [][\A m \in StreetOrder :
          gs_op' = m[1] =>
              /\ gs_err' = "" =>
                    /\ gs.street = m[2]
                    /\ gs'.street = m[3]
                    /\ Len(gs'.board) = m[4]
              /\ gs.street /= m[2] => (gs_err' = "RuntimeError" /\ gs' = gs)]_vars

\* C26 as stated: when set_hole_cards or set_board raises, hole cards, board,
\* street, deck, removed set and event log are as they were before the call.
C26_Original ==
    [][(gs_op' \in {"set_hole_cards", "set_board"} /\ gs_err' /= "") =>
          gs' = gs]_vars

\* C27 as stated: over successful operations the street never moves to an
\* earlier street, and once it is COMPLETE neither the street nor the board
\* changes again.
C27_Original ==
    [][(gs_op /= "none" /\ ~gs_failed') =>
          /\ gs'.street >= gs.street
          /\ gs.street = COMPLETE =>
                (gs'.street = COMPLETE /\ gs'.board = gs.board)]_vars

\* the replayer after it has stepped through the whole log
ReplayAll(log) == AllStatesFrom(NewReplayer, log, <<>>).r

\* the hole cards the replayer holds for a seat, none when it has no entry
ReplayedHole(r, seat) ==
    IF seat \in DOMAIN r.hole_cards THEN r.hole_cards[seat] ELSE <<>>

\* C30: after any sequence of successful operations every event's sequence
\* number is its position in the log, which starts with INIT_HAND at 0, and
\* replaying the whole log reconstructs the hole cards of every seat and the
\* board of the game and, once resolved, the winners and the pot shares of
\* its result.
C30_LogIsFaithful ==
    (gs_op /= "none" /\ ~gs_failed) =>
        /\ \A i \in DOMAIN gs.event_log : gs.event_log[i].sequence = i - 1
        /\ gs.event_log[1].event_type = "init_hand"
        /\ \A r \in {ReplayAll(gs.event_log)} :
              /\ \A seat \in 0..(gs.num_players - 1) :
                    ReplayedHole(r, seat) = gs.players[seat + 1]
              /\ r.board = gs.board
              /\ gs.result /= None =>
                    /\ r.winners = <<gs.result[1].winners>>
                    /\ r.payouts = <<gs.result[1].pot_share>>

\* a resolved hand, no call having raised, in whose log a board set with
\* set_board follows a dealt flop or the other way round
C30_Witness ==
    /\ gs_op /= "none"
    /\ ~gs_failed
    /\ gs.result /= None
    /\ Cardinality({i \in DOMAIN gs.event_log :
                       gs.event_log[i].event_type = "deal_flop"}) = 2

(***************************************************************************)
(* The specification of HandReplayer: a replayer is constructed over a     *)
(* log, and up to MaxReplayCalls of its methods are called on it, in any   *)
(* order.  The logs are the empty log, the log of a new game, the log of a *)
(* game run to showdown, and a log put together by hand in which a turn    *)
(* card comes before any flop, a flop is dealt twice, equities are given   *)
(* and then given empty, and a second INIT_HAND follows.                   *)
(***************************************************************************)
MixedLog ==
    LogAppend(LogAppend(LogAppend(LogAppend(LogAppend(LogAppend(LogAppend(LogAppend(
        <<>>,
        "deal_turn", [card |-> Card(2, CLUBS)]),
        "deal_hole", [player |-> 1, cards |-> <<Card(ACE, SPADES), Card(13, SPADES)>>]),
        "deal_flop", [cards |-> <<Card(11, SPADES), Card(10, SPADES), Card(9, SPADES)>>]),
        "equity_snapshot", [street |-> "FLOP",
                            equities |-> [seat \in {0, 1} |-> IntDiv(1, 2)]]),
        "equity_snapshot", [street |-> "FLOP", equities |-> EmptyDict]),
        "deal_flop", [cards |-> <<Card(7, HEARTS), Card(6, HEARTS), Card(5, HEARTS)>>]),
        "init_hand", [num_players |-> 2, seed |-> None]),
        "deal_river", [card |-> Card(3, DIAMONDS)])

ReplayLogs ==
    {<<>>, MixedLog}
    \cup {GameState_init(2, <<1>>, state).event_log : state \in SeedStates(<<1>>)}
    \cup {run_to_showdown(GameState_init(2, <<1>>, state)).g.event_log :
             state \in SeedStates(<<1>>)}

\* replayer = HandReplayer(log)
ReplayInit ==
    /\ EvalIdle
    /\ EquityIdle
    /\ DrawsIdle
    /\ CanonIdle
    /\ DeckIdle
    /\ GameIdle
    /\ rp_log \in ReplayLogs
    /\ rp = NewReplayer
    /\ rp_op = "init"
    /\ rp_arg = 0
    /\ rp_out = None
    /\ rp_states = <<>>
    /\ rp_calls = 0
    /\ rp_prev = NewReplayer

CanReplay == rp_op /= "none" /\ rp_calls < MaxReplayCalls

\* a call of the method op with argument arg that returned out and left r
ReplayCall(op, arg, out, r, states) ==
    /\ rp' = r
    /\ rp_out' = out
    /\ rp_op' = op
    /\ rp_arg' = arg
    /\ rp_states' = states
    /\ rp_calls' = rp_calls + 1
    /\ rp_prev' = rp
    /\ UNCHANGED <<ev_vars, eq_vars, dr_vars, cn_vars, dk_vars, gs_vars, rp_log>>

StepForward ==
    /\ CanReplay
    /\ \E res \in {step_forward(rp, rp_log)} :
          ReplayCall("step_forward", 0, res.out, res.r, rp_states)

StepBackward ==
    /\ CanReplay
    /\ \E res \in {step_backward(rp, rp_log)} :
          ReplayCall("step_backward", 0, res.out, res.r, rp_states)

GotoStep ==
    /\ CanReplay
    /\ \E step \in -1..Len(rp_log) : \E res \in {goto_step(rp, rp_log, step)} :
          ReplayCall("goto_step", step, res.out, res.r, rp_states)

ReplayReset == CanReplay /\ ReplayCall("reset", 0, None, NewReplayer, rp_states)

GetAllStates ==
    /\ CanReplay
    /\ \E res \in {get_all_states(rp, rp_log)} :
          ReplayCall("get_all_states", 0, None, res.r, res.states)

ReplayNext ==
    \/ StepForward
    \/ StepBackward
    \/ GotoStep
    \/ ReplayReset
    \/ GetAllStates

SpecReplay == ReplayInit /\ [][ReplayNext]_vars

(***************************************************************************)
(* Claims about HandReplayer (checked under SpecReplay).                   *)
(***************************************************************************)
\* the reconstructed hand of a replayer: its fields besides the position
Reconstructed(r) == [r EXCEPT !.step = 0]

\* the HandState a replay from the start gives for the event at index k
StateAt(k) == get_all_states(NewReplayer, rp_log).states[k + 1]

ForwardSteps ==
    rp_op' = "step_forward" =>
        IF rp.step < Len(rp_log)
        THEN /\ rp'.step = rp.step + 1
             /\ Reconstructed(rp') =
                    Reconstructed(process_event(rp, rp_log[rp.step + 1]))
             /\ rp_out' /= None
             /\ rp_out'[1].event = rp_log[rp.step + 1]
             /\ rp_out'[1].event.sequence = rp.step
        ELSE rp_out' = None /\ rp' = rp

GotoSteps ==
    rp_op' = "goto_step" =>
        IF 0 <= rp_arg' /\ rp_arg' < Len(rp_log)
        THEN rp_out' = <<StateAt(rp_arg')>> /\ rp'.step = rp_arg' + 1
        ELSE rp_out' = None /\ rp' = rp

BackwardSteps ==
    rp_op' = "step_backward" =>
        IF rp.step >= 2
        THEN /\ rp'.step = rp.step - 1
             /\ rp_out' = <<StateAt(rp.step - 2)>>
             /\ (rp_op = "step_forward" /\ rp_out /= None) => rp' = rp_prev
        ELSE rp_out' = None /\ rp' = rp

\* C23: step_forward at position s < n applies event s and moves to s + 1,
\* and at s = n returns None and changes nothing; goto_step(k) with
\* 0 <= k < n returns element k of get_all_states() and leaves the position
\* k + 1, and with k out of range returns None without moving; step_backward
\* at s >= 2 leaves the position s - 1 and returns the state produced by
\* event s - 2, so that after a step_forward it restores the position and the
\* reconstructed hand, and at s <= 1 returns None without moving.
C23_ReplayerSteps ==
    [][ForwardSteps /\ GotoSteps /\ BackwardSteps]_vars

\* a step_backward from a position of 3 or more that returned a state, over
\* a log in which the event undone had changed the reconstructed hand
C23_Witness ==
    /\ rp_op = "step_backward"
    /\ rp_out /= None
    /\ rp.step >= 2
    /\ rp_prev.step = rp.step + 1
    /\ rp.step < Len(rp_log)
    /\ Reconstructed(rp) /= Reconstructed(step_forward(rp, rp_log).r)

=============================================================================
